---- MODULE Spec2Model ----
(***************************************************************************)
(* peerchat: the room session (ChatRoom: PubLoop, SubLoop, Exit), the      *)
(* orchestrator (UI.start, UI.handleCommand, UI.changeRoom) and the peer   *)
(* connector (P2P.handlePeerDiscovery), as state machines.                 *)
(*                                                                         *)
(* The Go channels here are all unbuffered: a send and its receive are one *)
(* step (a rendezvous), and a goroutine whose pc names a send is blocked   *)
(* in it until a receiver takes the value.                                 *)
(***************************************************************************)
EXTENDS Naturals, Integers, Sequences, FiniteSets, TLC

\* ---------------------------------------------------------------- bounds
MaxInputs == 2    \* inputs in all: lines the user submits, records sub.Next returns
MaxStream == 7    \* records of the discovery stream
MaxTail == 3      \* characters of a line after its first word
MaxHandoverRecords == 1   \* records the other peers publish during a room handover
MaxLog == 3       \* lines of a log file
MaxText == 2      \* characters of the text of a message
MaxTicks == 2     \* ticks of the refresh ticker followed with the peer box
MaxSwitches == 1  \* `/room` commands typed while the peer box is followed

\* ------------------------------------------------------------- constants
ConnectLimit == 5 \* g.SetLimit(5)
MaxScanTokenSize == 65536 \* the longest line bufio.NewScanner(file) reads

Self == "self"
Peer == "peer"
RoomNames == {"lobby", "other"}
\* every command builds at most one ChatRoom, and main built the first
RoomIds == 1..(MaxInputs + 1)
NoRoom == 0
CmdIds == 1..MaxInputs
NoMsg == [id |-> 0, senderId |-> "", senderName |-> ""]
NoLine == [kind |-> "none", id |-> 0, type |-> "", arg |-> ""]
NoCmd == [pc |-> "none", type |-> "", arg |-> "", new |-> NoRoom, old |-> NoRoom, logRoom |-> NoRoom]

VARIABLES
    \* process and tview main goroutine
    running,      \* FALSE once TerminalApp.Run has returned and UI.Close has run
    pending,      \* the line the input capture is sending on msgchan / cmdchan
    nMsgs,        \* chat lines submitted so far
    \* UI struct and the goroutine of UI.start
    active,       \* ui.ChatRoom
    uipc,         \* "select" or "sendOut"
    sel,          \* the room whose Inbound and Logs the select waits on
    zeroShown,    \* rooms from whose closed Inbound a zero ChatMessage was displayed
    outRoom,      \* the room whose Outbound the loop is sending on
    outMsg,       \* the ChatMessage being sent on Outbound
    \* goroutines of UI.handleCommand
    cmd,          \* per command: [pc, type, arg, new, old, logRoom]
    nCmds,
    \* ChatRoom structs
    nRooms,       \* structs built so far
    rstate,       \* "none", "ok" (NewChatRoom returned it), "failed" (returned an error)
    RoomName, UserName, History,
    ctxDone,      \* cr.ctx is cancelled
    storClosed,   \* cr.storage.Close() was called
    subCancelled, \* cr.sub.Cancel() was called
    topicClosed,  \* cr.topic.Close() was called
    exitCalls,    \* calls of cr.Exit() begun
    fdReleases,   \* times the descriptor of the room's log file was released
    inClosed,     \* cr.Inbound is closed
    subpc, subMsg, pubpc, pubMsg,
    enqueued,     \* per room: ids of the messages taken from Outbound, in order
    published,    \* per room: ids of the messages topic.Publish accepted, in order
    nRecv,        \* records handed out by sub.Next so far
    \* storage
    logFile,      \* per room name: the lines of <room>.msg.log
    \* handlePeerDiscovery
    connpc, connRec, nDiscovered, consumedCnt, attemptCnt, inflightCnt,
    connCancel,   \* the context of the errgroup (derived from p.Ctx) is cancelled
    connFailed,   \* some p.Host.Connect has returned an error
    adv,          \* AdvertiseConnect: how Advertise and FindPeers ended, what it returned
    \* one line of input at a time, character by character
    typed,        \* the text of the input box at the last submit
    lpc,          \* "input", "select" (sent on msgchan / cmdchan), "handle", "stopped"
    sent,         \* what the input capture sent: the line, or the uiCommand
    lRoom, lUser, \* ui.RoomName, ui.UserName
    lHistory,     \* ui.History
    lOut,         \* the ChatMessage sent on ui.Outbound for the line
    lShown,       \* what was printed in the message box for the line
    lBranch,      \* the branch handleCommand took for the line
    \* PubSub.Join of NewChatRoom, on each node
    joinRoom,     \* per node: the room argument of its latest NewChatRoom
    joinTopic,    \* per node: the topic name it passed to PubSub.Join
    \* storage.File of one room, and the calls made on it
    fileLines,    \* the lines of the log file
    fileClosed,   \* File.Close was called on the handle in use
    lastLoad,     \* what the latest LoadMessages returned
    prevLoad,     \* what the LoadMessages before it returned
    sinceLast,    \* what changed the file since the latest LoadMessages
    sincePrev,    \* what changed the file between those two
    \* one ChatMessage through json.Marshal and json.Unmarshal
    cpc,          \* "idle", "built", "marshalled", "unmarshalled"
    cMsg,         \* the ChatMessage given to json.Marshal
    cWire,        \* the bytes json.Marshal returned
    cBack,        \* the ChatMessage json.Unmarshal filled in
    \* storage.File under concurrent callers of SaveMessage and LoadMessages
    mu,           \* s.mu: "free", or the caller that holds it
    fpc,          \* per caller: where it is in SaveMessage or LoadMessages
    fLine,        \* per caller: the line given to SaveMessage
    wbuf,         \* the lines in the buffer of s.writer, not yet written
    \* the peer box of the UI
    peerBox,      \* the room whose PeerList the latest syncPeerBox printed
    nTicks        \* ticks of the refresh ticker handled with the peer box in view

procVars == <<running, pending, nMsgs>>
uiVars == <<active, uipc, sel, outRoom, outMsg>>
cmdVars == <<cmd, nCmds>>
roomFields == <<nRooms, rstate, RoomName, UserName, History>>
exitVars == <<ctxDone, storClosed, subCancelled, topicClosed, exitCalls, fdReleases>>
subVars == <<inClosed, subpc, subMsg, nRecv>>
pubVars == <<pubpc, pubMsg, enqueued, published>>
connVars == <<connpc, connRec, nDiscovered, consumedCnt, attemptCnt, inflightCnt,
              connCancel, connFailed, adv>>
chatVars == <<procVars, uiVars, cmdVars, roomFields, exitVars, subVars, pubVars, logFile,
              zeroShown>>
lineVars == <<typed, lpc, sent, lRoom, lUser, lHistory, lOut, lShown, lBranch>>
joinVars == <<joinRoom, joinTopic>>
storeVars == <<fileLines, fileClosed, lastLoad, prevLoad, sinceLast, sincePrev>>
codecVars == <<cpc, cMsg, cWire, cBack>>
muVars == <<mu, fpc, fLine, wbuf>>
rosterVars == <<peerBox, nTicks>>
dataVars == <<storeVars, codecVars, muVars, rosterVars>>
vars == <<chatVars, connVars, lineVars, joinVars, dataVars>>

\* ------------------------------------------------------- wire and storage
\* json.Marshal of a model.ChatMessage, and a line no json.Unmarshal accepts
Marshal(m) == <<"json", m.id, m.senderId, m.senderName>>
Garbage == <<"garbage">>
IsJSON(line) == Len(line) = 4 /\ line[1] = "json"
Unmarshal(line) == [id |-> line[2], senderId |-> line[3], senderName |-> line[4]]

\* File.LoadMessages: the lines that unmarshal, in file order
LoadMessages(lines) ==
    LET good == SelectSeq(lines, IsJSON)
    IN  [i \in 1..Len(good) |-> Unmarshal(good[i])]

\* File.SaveMessage: WriteString + Flush; an error when the file is closed
\* or the write fails (ioOk = FALSE), and then the file is unchanged. The
\* outcome is chosen call by call: a bufio.Writer that keeps failing after
\* its first error is among the choices.
SaveMessage(lines, line, closed, ioOk) ==
    IF closed \/ ~ioOk THEN lines ELSE Append(lines, line)

OldMsg == [id |-> 0, senderId |-> Peer, senderName |-> "bob"]
PeerMsg == [id |-> 0, senderId |-> Peer, senderName |-> "bob"]
EchoMsg == [id |-> 0, senderId |-> Self, senderName |-> "incognito"]

\* what sub.Next can hand to SubLoop in room r: a record this node published
\* (ReceivedFrom is the local peer), or a record forwarded by another peer,
\* whose payload is whatever that peer sent
Records(r) ==
    (IF published[r] # <<>> THEN {[from |-> Self, data |-> Marshal(EchoMsg)]} ELSE {})
    \cup {[from |-> Peer, data |-> d] : d \in {Marshal(PeerMsg), Marshal(EchoMsg), Garbage}}

\* inputs taken so far: chat lines, command lines, records
nInputs == nMsgs + nCmds + (IF pending.kind = "cmd" THEN 1 ELSE 0) + nRecv

Live(r) == running /\ rstate[r] \in {"ok", "failed"}

\* ----------------------------------------------------------------- PubLoop
\* json.Marshal of a ChatMessage stamped by UI.start (strings and time.Now())
\* returns no error, so the marshal branch of PubLoop is never taken.

\* topic.Publish accepted message id: the topic's sequence of publishes
PublishReversed(seq, id) == <<id>> \o seq
PublishRecord(seq, id) == Append(seq, id)

\* case <-cr.ctx.Done(): return
PubDone(r) ==
    /\ Live(r) /\ pubpc[r] = "recv" /\ ctxDone[r]
    /\ pubpc' = [pubpc EXCEPT ![r] = "done"]
    /\ UNCHANGED <<procVars, uiVars, cmdVars, roomFields, exitVars, subVars,
                   pubMsg, enqueued, published, logFile, connVars, lineVars, joinVars, dataVars, zeroShown>>

\* cr.topic.Publish fails: the loop goes to send the LogMessage
PubPublishFail(r) ==
    /\ Live(r) /\ pubpc[r] = "publish"
    /\ pubpc' = [pubpc EXCEPT ![r] = "logPublish"]
    /\ pubMsg' = [pubMsg EXCEPT ![r] = NoMsg]
    /\ UNCHANGED <<procVars, uiVars, cmdVars, roomFields, exitVars, subVars,
                   enqueued, published, logFile, connVars, lineVars, joinVars, dataVars, zeroShown>>

\* cr.topic.Publish succeeds (never on a closed topic)
PubPublishOk(r) ==
    /\ Live(r) /\ pubpc[r] = "publish" /\ ~topicClosed[r]
    /\ published' = [published EXCEPT ![r] = PublishRecord(@, pubMsg[r].id)]
    /\ pubpc' = [pubpc EXCEPT ![r] = "save"]
    /\ UNCHANGED <<procVars, uiVars, cmdVars, roomFields, exitVars, subVars,
                   pubMsg, enqueued, logFile, connVars, lineVars, joinVars, dataVars, zeroShown>>

\* string(messagebytes): the line PubLoop hands to SaveMessage is the
\* marshalled message it took from Outbound
SavedLineOfSub(r) == Marshal(IF subMsg[r] # NoMsg THEN subMsg[r] ELSE pubMsg[r])
SavedLine(r) == Marshal(pubMsg[r])

\* _ = cr.storage.SaveMessage(string(messagebytes)): the error is dropped
PubSave(r) ==
    /\ Live(r) /\ pubpc[r] = "save"
    /\ \E ioOk \in BOOLEAN :
         logFile' = [logFile EXCEPT ![RoomName[r]] =
                        SaveMessage(@, SavedLine(r), storClosed[r], ioOk)]
    /\ pubpc' = [pubpc EXCEPT ![r] = "recv"]
    /\ pubMsg' = [pubMsg EXCEPT ![r] = NoMsg]
    /\ UNCHANGED <<procVars, uiVars, cmdVars, roomFields, exitVars, subVars,
                   enqueued, published, connVars, lineVars, joinVars, dataVars, zeroShown>>

\* ----------------------------------------------------------------- SubLoop
\* the self filter of SubLoop: message.ReceivedFrom == cr.peerId
IsOwn(rec) == rec.from = Self

\* case <-cr.ctx.Done(): return
SubDone(r) ==
    /\ Live(r) /\ subpc[r] = "next" /\ ctxDone[r]
    /\ subpc' = [subpc EXCEPT ![r] = "done"]
    /\ UNCHANGED <<procVars, uiVars, cmdVars, roomFields, exitVars,
                   inClosed, subMsg, nRecv, pubVars, logFile, connVars, lineVars, joinVars, dataVars, zeroShown>>

\* cr.sub.Next(cr.ctx) returns an error (the context is cancelled or the
\* subscription is cancelled): close(cr.Inbound), then send the LogMessage
SubErr(r) ==
    /\ Live(r) /\ subpc[r] = "next"
    /\ inClosed' = [inClosed EXCEPT ![r] = TRUE]
    /\ subpc' = [subpc EXCEPT ![r] = "logClosed"]
    /\ UNCHANGED <<procVars, uiVars, cmdVars, roomFields, exitVars,
                   subMsg, nRecv, pubVars, logFile, connVars, lineVars, joinVars, dataVars, zeroShown>>

SubNextErr(r) == (ctxDone[r] \/ subCancelled[r]) /\ SubErr(r)

\* the same return of sub.Next with nothing cancelled and Exit not called:
\* the subscription failed on its own
SubFail(r) == ~ctxDone[r] /\ ~subCancelled[r] /\ exitCalls[r] = 0 /\ SubErr(r)

\* cm := &model.ChatMessage{}; json.Unmarshal(message.Data, cm): the message
\* SubLoop sends on cr.Inbound is what the payload holds, field by field
DeliveredStamped(rec) == [Unmarshal(rec.data) EXCEPT !.senderId = rec.from]
Delivered(rec) == Unmarshal(rec.data)

\* cr.sub.Next(cr.ctx) returns a record: dropped by the self filter, or
\* unmarshalled and then sent on cr.Inbound, or a LogMessage when it is no JSON
SubNext(r) ==
    /\ Live(r) /\ subpc[r] = "next"
    /\ \E rec \in Records(r) :
         IF IsOwn(rec)
         THEN UNCHANGED <<subpc, subMsg>>
         ELSE IF ~IsJSON(rec.data)
         THEN /\ subpc' = [subpc EXCEPT ![r] = "logBad"]
              /\ UNCHANGED subMsg
         ELSE /\ subpc' = [subpc EXCEPT ![r] = "sendIn"]
              /\ subMsg' = [subMsg EXCEPT ![r] = Delivered(rec)]
    /\ nRecv' = nRecv + 1
    /\ UNCHANGED <<procVars, uiVars, cmdVars, roomFields, exitVars,
                   inClosed, pubVars, logFile, connVars, lineVars, joinVars, dataVars, zeroShown>>

\* a record arrives while the environment has inputs left
SubNextRec(r) == nInputs < MaxInputs /\ SubNext(r)

\* ------------------------------------------------ UI.start, the event loop
\* The select evaluates its channel operands, ui.ChatRoom.Inbound and
\* ui.ChatRoom.Logs, when it is entered, and waits on those channels until a
\* case fires: sel is the room ui.ChatRoom named at that moment. Each case
\* ends by entering the select again.

\* the input capture of NewUI: a line with the "/" prefix goes to cmdchan,
\* any other line to msgchan; the main goroutine is blocked in the send
CmdLines ==
    {[kind |-> "cmd", id |-> 0, type |-> "/quit", arg |-> ""]}
    \cup {[kind |-> "cmd", id |-> 0, type |-> "/room", arg |-> a] : a \in RoomNames}

SubmitCmd(lines) ==
    /\ running /\ pending.kind = "none"
    /\ \E l \in lines : pending' = l
    /\ UNCHANGED <<running, nMsgs, uiVars, cmdVars, roomFields, exitVars,
                   subVars, pubVars, logFile, connVars, lineVars, joinVars, dataVars, zeroShown>>

UserSubmit ==
    /\ nInputs < MaxInputs
    /\ \/ /\ running /\ pending.kind = "none"
          /\ pending' = [kind |-> "msg", id |-> nMsgs + 1, type |-> "", arg |-> ""]
          /\ nMsgs' = nMsgs + 1
          /\ UNCHANGED <<running, uiVars, cmdVars, roomFields, exitVars,
                         subVars, pubVars, logFile, connVars, lineVars, joinVars, dataVars, zeroShown>>
       \/ SubmitCmd(CmdLines)

\* case msg := <-ui.MsgInputs: stamp the ChatMessage, then ui.Outbound <- m
UIRecvMsg ==
    /\ running /\ uipc = "select" /\ pending.kind = "msg"
    /\ outMsg' = [id |-> pending.id, senderId |-> Self, senderName |-> UserName[active]]
    /\ outRoom' = active
    /\ uipc' = "sendOut"
    /\ sel' = NoRoom
    /\ pending' = NoLine
    /\ UNCHANGED <<running, nMsgs, active,
                   cmdVars, roomFields, exitVars, subVars, pubVars, logFile, connVars, lineVars, joinVars, dataVars, zeroShown>>

\* case cmd := <-ui.CmdInputs: go ui.handleCommand(cmd)
UIRecvCmd ==
    /\ running /\ uipc = "select" /\ pending.kind = "cmd"
    /\ nCmds' = nCmds + 1
    /\ cmd' = [cmd EXCEPT ![nCmds + 1] =
                  [NoCmd EXCEPT !.pc = "start", !.type = pending.type, !.arg = pending.arg]]
    /\ sel' = active
    /\ pending' = NoLine
    /\ UNCHANGED <<running, nMsgs, active, uipc, outRoom, outMsg,
                   roomFields, exitVars, subVars, pubVars, logFile, connVars, lineVars, joinVars, dataVars, zeroShown>>

\* ui.Outbound <- m meets case message := <-cr.Outbound of PubLoop
UISendOut ==
    /\ running /\ uipc = "sendOut" /\ Live(outRoom) /\ pubpc[outRoom] = "recv"
    /\ pubpc' = [pubpc EXCEPT ![outRoom] = "publish"]
    /\ pubMsg' = [pubMsg EXCEPT ![outRoom] = outMsg]
    /\ enqueued' = [enqueued EXCEPT ![outRoom] = Append(@, outMsg.id)]
    /\ uipc' = "select"
    /\ sel' = active
    /\ outRoom' = NoRoom
    /\ outMsg' = NoMsg
    /\ UNCHANGED <<procVars, active, cmdVars, roomFields, exitVars, subVars,
                   published, logFile, connVars, lineVars, joinVars, dataVars, zeroShown>>

\* case msg := <-ui.ChatRoom.Inbound meets cr.Inbound <- *cm of SubLoop
UIRecvInbound ==
    /\ running /\ uipc = "select" /\ Live(sel) /\ subpc[sel] = "sendIn"
    /\ subpc' = [subpc EXCEPT ![sel] = "next"]
    /\ subMsg' = [subMsg EXCEPT ![sel] = NoMsg]
    /\ sel' = active
    /\ UNCHANGED <<procVars, active, uipc, outRoom, outMsg, cmdVars, roomFields,
                   exitVars, inClosed, nRecv, pubVars, logFile, connVars, lineVars, joinVars, dataVars, zeroShown>>

\* case msg := <-ui.ChatRoom.Inbound on a closed channel: it yields the zero
\* value of its element type at once, and displayMessage prints it
UIRecvClosed ==
    /\ running /\ uipc = "select" /\ Live(sel) /\ inClosed[sel]
    /\ zeroShown' = zeroShown \cup {sel}
    /\ sel' = active
    /\ UNCHANGED <<procVars, active, uipc, outRoom, outMsg, cmdVars, roomFields,
                   exitVars, subVars, pubVars, logFile, connVars, lineVars, joinVars, dataVars>>

\* case log := <-ui.ChatRoom.Logs meets cr.Logs <- ... of PubLoop
UIRecvLogPub ==
    /\ running /\ uipc = "select" /\ Live(sel) /\ pubpc[sel] = "logPublish"
    /\ pubpc' = [pubpc EXCEPT ![sel] = "recv"]
    /\ sel' = active
    /\ UNCHANGED <<procVars, active, uipc, outRoom, outMsg, cmdVars, roomFields,
                   exitVars, subVars, pubMsg, enqueued, published, logFile, connVars, lineVars, joinVars, dataVars, zeroShown>>

\* ... of SubLoop: after "subscription has closed" it returns, after "could
\* not unmarshal JSON" it continues
UIRecvLogSub ==
    /\ running /\ uipc = "select" /\ Live(sel)
    /\ subpc[sel] \in {"logClosed", "logBad"}
    /\ subpc' = [subpc EXCEPT ![sel] = IF @ = "logClosed" THEN "done" ELSE "next"]
    /\ sel' = active
    /\ UNCHANGED <<procVars, active, uipc, outRoom, outMsg, cmdVars, roomFields,
                   exitVars, inClosed, subMsg, nRecv, pubVars, logFile, connVars, lineVars, joinVars, dataVars, zeroShown>>

\* ... of a handleCommand goroutine: ui.Logs <- "joining new room" is followed
\* by changeRoom; every other LogMessage of handleCommand by its return
DoneCmd == [NoCmd EXCEPT !.pc = "done"]
AfterLog(c) == IF c.pc = "logJoining" THEN [c EXCEPT !.pc = "newRoom", !.logRoom = NoRoom]
               ELSE DoneCmd
UIRecvLogCmd(g) ==
    /\ running /\ uipc = "select"
    /\ cmd[g].pc \in {"logJoining", "logFail", "logMissing"} /\ cmd[g].logRoom = sel
    /\ cmd' = [cmd EXCEPT ![g] = AfterLog(@)]
    /\ sel' = active
    /\ UNCHANGED <<procVars, active, uipc, outRoom, outMsg, nCmds, roomFields,
                   exitVars, subVars, pubVars, logFile, connVars, lineVars, joinVars, dataVars, zeroShown>>

\* case <-ticker.C
UITick ==
    /\ running /\ uipc = "select"
    /\ sel' = active
    /\ UNCHANGED <<procVars, active, uipc, outRoom, outMsg, cmdVars, roomFields,
                   exitVars, subVars, pubVars, logFile, connVars, lineVars, joinVars, dataVars, zeroShown>>

\* case <-ticker.C with the peer box in view: syncPeerBox prints
\* ui.PeerList(), the peers of the topic of the room ui.ChatRoom names when it
\* runs, and not of the room whose channels the select was waiting on
RosterRoomOfSelect(a, s) == s
RosterRoom(a, s) == a
UISyncPeerBox ==
    /\ running /\ uipc = "select" /\ nTicks < MaxTicks
    /\ peerBox' = RosterRoom(active, sel)
    /\ nTicks' = nTicks + 1
    /\ sel' = active
    /\ UNCHANGED <<procVars, active, uipc, outRoom, outMsg, cmdVars, roomFields,
                   exitVars, subVars, pubVars, logFile, connVars, lineVars, joinVars,
                   storeVars, codecVars, muVars, zeroShown>>

\* ------------------------------------------- UI.handleCommand, goroutine g
defaultUser == "incognito"
defaultRoom == "lobby"

\* case "/quit": ui.TerminalApp.Stop(); TerminalApp.Run returns on the main
\* goroutine (once it is out of the input capture), the deferred ui.Close()
\* cancels the context of ui.ChatRoom, and main returns: the process ends
CmdQuit(g) ==
    /\ running /\ cmd[g].pc = "start" /\ cmd[g].type = "/quit"
    /\ pending.kind = "none"
    /\ running' = FALSE
    /\ ctxDone' = [ctxDone EXCEPT ![active] = TRUE]
    /\ cmd' = [cmd EXCEPT ![g] = DoneCmd]
    /\ UNCHANGED <<pending, nMsgs, uiVars, nCmds, roomFields, storClosed, subCancelled,
                   topicClosed, exitCalls, fdReleases, subVars, pubVars, logFile, connVars, lineVars, joinVars, dataVars, zeroShown>>

\* case "/room": the three branches on cmd.Arg; a LogMessage is sent on
\* ui.Logs, the Logs channel of the room ui.ChatRoom names at that moment
\* cmd.Arg == ui.RoomName, the name of the room ui.ChatRoom points to
SameRoomNever(arg, name) == FALSE
SameRoom(arg, name) == arg = name

\* a command that returned from the else-if of the "/room" case
DoneSame == [NoCmd EXCEPT !.pc = "doneSame"]

CmdRoom(g) ==
    /\ running /\ cmd[g].pc = "start" /\ cmd[g].type = "/room"
    /\ cmd' = [cmd EXCEPT ![g] =
                 IF cmd[g].arg = "" THEN [@ EXCEPT !.pc = "logMissing", !.logRoom = active]
                 ELSE IF SameRoom(cmd[g].arg, RoomName[active]) THEN DoneSame
                 ELSE [@ EXCEPT !.pc = "logJoining", !.logRoom = active]]
    /\ UNCHANGED <<procVars, uiVars, nCmds, roomFields, exitVars, subVars, pubVars,
                   logFile, connVars, lineVars, joinVars, dataVars, zeroShown>>

\* NewChatRoom fails in PubSub.Join, topic.Subscribe or storage.NewFile:
\* changeRoom goes to send "could not change chat room" on ui.Logs
CmdNewRoomErr(g) ==
    /\ running /\ cmd[g].pc = "newRoom"
    /\ cmd' = [cmd EXCEPT ![g].pc = "logFail", ![g].logRoom = active]
    /\ UNCHANGED <<procVars, uiVars, nCmds, roomFields, exitVars, subVars, pubVars,
                   logFile, connVars, lineVars, joinVars, dataVars, zeroShown>>

\* where changeRoom goes when NewChatRoom returned the error of LoadHistory
HistErrGoesOn(c) == [c EXCEPT !.pc = "readOld"]
HistErrNext(c) == [c EXCEPT !.pc = "logFail", !.logRoom = active]

\* NewChatRoom from the ChatRoom literal on: the struct, go SubLoop, go
\* PubLoop, then LoadHistory, whose error fails the whole construction with
\* the two loops started
CmdNewRoom(g) ==
    /\ running /\ cmd[g].pc = "newRoom"
    /\ LET id == nRooms + 1
           name == IF cmd[g].arg = "" THEN defaultRoom ELSE cmd[g].arg
       IN
         /\ nRooms' = id
         /\ RoomName' = [RoomName EXCEPT ![id] = name]
         /\ UserName' = [UserName EXCEPT ![id] =
                            IF UserName[active] = "" THEN defaultUser ELSE UserName[active]]
         /\ subpc' = [subpc EXCEPT ![id] = "next"]
         /\ pubpc' = [pubpc EXCEPT ![id] = "recv"]
         /\ \/ /\ History' = [History EXCEPT ![id] = LoadMessages(logFile[name])]
               /\ rstate' = [rstate EXCEPT ![id] = "ok"]
               /\ cmd' = [cmd EXCEPT ![g].pc = "readOld", ![g].new = id]
            \/ /\ rstate' = [rstate EXCEPT ![id] = "failed"]
               /\ cmd' = [cmd EXCEPT ![g] = HistErrNext([@ EXCEPT !.new = id])]
               /\ UNCHANGED History
    /\ UNCHANGED <<procVars, uiVars, nCmds, exitVars, inClosed, subMsg, nRecv,
                   pubMsg, enqueued, published, logFile, connVars, lineVars, joinVars, dataVars, zeroShown>>

\* oldChatRoom := ui.ChatRoom
CmdReadOld(g) ==
    /\ running /\ cmd[g].pc = "readOld"
    /\ cmd' = [cmd EXCEPT ![g].pc = "rebind", ![g].old = active]
    /\ UNCHANGED <<procVars, uiVars, nCmds, roomFields, exitVars, subVars, pubVars,
                   logFile, connVars, lineVars, joinVars, dataVars, zeroShown>>

\* ui.ChatRoom = newChatRoom; then time.Sleep and the redraw, which change
\* nothing of the rooms
CmdRebind(g) ==
    /\ running /\ cmd[g].pc = "rebind"
    /\ active' = cmd[g].new
    /\ cmd' = [cmd EXCEPT ![g].pc = "exitStore"]
    /\ UNCHANGED <<procVars, uipc, sel, outRoom, outMsg, nCmds, roomFields, exitVars,
                   subVars, pubVars, logFile, connVars, lineVars, joinVars, dataVars, zeroShown>>

\* oldChatRoom.Exit(): the room changeRoom calls Exit on
ExitActive(g) == active
ExitTarget(g) == cmd[g].old

\* File.Close: Flush, then s.file.Close(), which releases the descriptor of
\* an open file and returns os.ErrClosed, releasing nothing, on a closed one
FileCloseAlways(closed) == 1
FileCloseReleases(closed) == IF closed THEN 0 ELSE 1

\* _ = cr.storage.Close()
CmdExitStore(g) ==
    /\ running /\ cmd[g].pc = "exitStore"
    /\ fdReleases' = [fdReleases EXCEPT ![ExitTarget(g)] =
                         @ + FileCloseReleases(storClosed[ExitTarget(g)])]
    /\ storClosed' = [storClosed EXCEPT ![ExitTarget(g)] = TRUE]
    /\ exitCalls' = [exitCalls EXCEPT ![ExitTarget(g)] = @ + 1]
    /\ cmd' = [cmd EXCEPT ![g].pc = "exitSub"]
    /\ UNCHANGED <<procVars, uiVars, nCmds, roomFields, ctxDone, subCancelled,
                   topicClosed, subVars, pubVars, logFile, connVars, lineVars, joinVars, dataVars, zeroShown>>

\* cr.sub.Cancel()
CmdExitSub(g) ==
    /\ running /\ cmd[g].pc = "exitSub"
    /\ subCancelled' = [subCancelled EXCEPT ![ExitTarget(g)] = TRUE]
    /\ cmd' = [cmd EXCEPT ![g].pc = "exitTopic"]
    /\ UNCHANGED <<procVars, uiVars, nCmds, roomFields, ctxDone, storClosed,
                   topicClosed, exitCalls, fdReleases, subVars, pubVars, logFile, connVars, lineVars, joinVars, dataVars, zeroShown>>

\* _ = cr.topic.Close()
CmdExitTopic(g) ==
    /\ running /\ cmd[g].pc = "exitTopic"
    /\ topicClosed' = [topicClosed EXCEPT ![ExitTarget(g)] = TRUE]
    /\ cmd' = [cmd EXCEPT ![g].pc = "exitCancel"]
    /\ UNCHANGED <<procVars, uiVars, nCmds, roomFields, ctxDone, storClosed,
                   subCancelled, exitCalls, fdReleases, subVars, pubVars, logFile, connVars, lineVars, joinVars, dataVars, zeroShown>>

\* defer cr.cancel(), and the return of changeRoom
CmdExitCancel(g) ==
    /\ running /\ cmd[g].pc = "exitCancel"
    /\ ctxDone' = [ctxDone EXCEPT ![ExitTarget(g)] = TRUE]
    /\ cmd' = [cmd EXCEPT ![g] = DoneCmd]
    /\ UNCHANGED <<procVars, uiVars, nCmds, roomFields, storClosed, subCancelled,
                   topicClosed, exitCalls, fdReleases, subVars, pubVars, logFile, connVars, lineVars, joinVars, dataVars, zeroShown>>

\* -------------------------------------------------- P2P.AdvertiseConnect
\* advertise, findPeers: "none" before the call, then "ok" or "err";
\* ret: "none" while AdvertiseConnect runs, then the error it returned
NoAdv == [advertise |-> "none", findPeers |-> "none", ret |-> "none"]
AdvStarted == [advertise |-> "ok", findPeers |-> "ok", ret |-> "nil"]

\* if err != nil { return fmt.Errorf("discovery advertise: %w", err) }
AdvertiseErr(ok) == IF ok THEN "nil" ELSE "discovery advertise"
\* if err != nil { return fmt.Errorf("find peers: %w", err) }
FindPeersErrDropped(ok) == "nil"
FindPeersErr(ok) == IF ok THEN "nil" ELSE "find peers"

\* ttl, err := p.Discovery.Advertise(p.Ctx, serviceName)
ConnAdvertise ==
    /\ connpc = "advertise"
    /\ \E ok \in BOOLEAN :
         IF AdvertiseErr(ok) = "nil"
         THEN /\ adv' = [adv EXCEPT !.advertise = "ok"]
              /\ connpc' = "findPeers"
         ELSE /\ adv' = [adv EXCEPT !.advertise = "err", !.ret = AdvertiseErr(ok)]
              /\ connpc' = "failed"
    /\ UNCHANGED <<chatVars, lineVars, joinVars, dataVars, connRec, nDiscovered, consumedCnt,
                   attemptCnt, inflightCnt, connCancel, connFailed>>

\* peerCh, err := p.Discovery.FindPeers(p.Ctx, serviceName), then
\* go p.handlePeerDiscovery(peerCh); return nil
ConnFindPeers ==
    /\ connpc = "findPeers"
    /\ \E ok \in BOOLEAN :
         IF FindPeersErr(ok) = "nil"
         THEN /\ adv' = [adv EXCEPT !.findPeers = IF ok THEN "ok" ELSE "err", !.ret = "nil"]
              /\ connpc' = "range"
         ELSE /\ adv' = [adv EXCEPT !.findPeers = "err", !.ret = FindPeersErr(ok)]
              /\ connpc' = "failed"
    /\ UNCHANGED <<chatVars, lineVars, joinVars, dataVars, connRec, nDiscovered, consumedCnt,
                   attemptCnt, inflightCnt, connCancel, connFailed>>

\* -------------------------------------------- P2P.handlePeerDiscovery
\* the peer.AddrInfo records of peerCh: the ID and len(pi.Addrs)
DiscRecords ==
    {[id |-> Self, addrs |-> 1], [id |-> "p1", addrs |-> 0],
     [id |-> "p1", addrs |-> 1], [id |-> "p2", addrs |-> 1]}
NoRec == [id |-> "", addrs |-> 0]

\* if pi.ID == p.Host.ID() || len(pi.Addrs) == 0 { continue }
EligibleNoSelfCheck(rec) == rec.addrs > 0
Eligible(rec) == rec.id # Self /\ rec.addrs > 0

Inflight ==
    inflightCnt[[id |-> "p1", addrs |-> 1]] + inflightCnt[[id |-> "p2", addrs |-> 1]]
    + inflightCnt[[id |-> Self, addrs |-> 1]] + inflightCnt[[id |-> "p1", addrs |-> 0]]

\* g.SetLimit(5): g.Go blocks until fewer than 5 goroutines of the group run
NoLimit == TRUE
SlotFree == Inflight < ConnectLimit

\* for pi := range peerCh: the next record; an ineligible one is skipped,
\* an eligible one goes to g.Go
ConnRecv ==
    /\ connpc = "range" /\ nDiscovered < MaxStream
    /\ \E rec \in DiscRecords :
         /\ consumedCnt' = [consumedCnt EXCEPT ![rec] = @ + 1]
         /\ IF Eligible(rec)
            THEN connpc' = "go" /\ connRec' = rec
            ELSE UNCHANGED <<connpc, connRec>>
    /\ nDiscovered' = nDiscovered + 1
    /\ UNCHANGED <<chatVars, lineVars, joinVars, dataVars, adv, attemptCnt, inflightCnt, connCancel, connFailed>>

\* g.Go(func() error {...}) gets a slot and starts the attempt
ConnGo ==
    /\ connpc = "go" /\ SlotFree
    /\ attemptCnt' = [attemptCnt EXCEPT ![connRec] = @ + 1]
    /\ inflightCnt' = [inflightCnt EXCEPT ![connRec] = @ + 1]
    /\ connpc' = "range"
    /\ connRec' = NoRec
    /\ UNCHANGED <<chatVars, lineVars, joinVars, dataVars, adv, nDiscovered, consumedCnt, connCancel, connFailed>>

\* what the function given to g.Go returns after p.Host.Connect returned
\* (ok: connected; ~ok: an error, the 10 s timeout included): nil either way
GoReturnsConnectErr(ok) == IF ok THEN "nil" ELSE "err"
GoReturn(ok) == "nil"

\* p.Host.Connect(connectCtx, peerInfo) returns: the function returns and
\* frees its slot; the first non-nil error of a function cancels the
\* context of the errgroup
ConnAttemptEnd(rec) ==
    /\ connpc # "idle" /\ inflightCnt[rec] > 0
    /\ inflightCnt' = [inflightCnt EXCEPT ![rec] = @ - 1]
    /\ \E ok \in BOOLEAN :
         /\ connFailed' = (connFailed \/ ~ok)
         /\ connCancel' = (connCancel \/ GoReturn(ok) = "err")
    /\ UNCHANGED <<chatVars, lineVars, joinVars, dataVars, adv, connpc, connRec, nDiscovered, consumedCnt, attemptCnt>>

\* p.Ctx is cancelled by whoever holds it: the context of the errgroup and
\* the connectCtx of every attempt are cancelled with it
ConnCancel ==
    /\ connpc \in {"range", "go", "wait"} /\ ~connCancel
    /\ connCancel' = TRUE
    /\ UNCHANGED <<chatVars, lineVars, joinVars, dataVars, adv, connpc, connRec, nDiscovered, consumedCnt, attemptCnt,
                   inflightCnt, connFailed>>

\* peerCh is closed: the range loop ends, return g.Wait()
ConnStreamClosed ==
    /\ connpc = "range"
    /\ connpc' = "wait"
    /\ UNCHANGED <<chatVars, lineVars, joinVars, dataVars, adv, connRec, nDiscovered, consumedCnt, attemptCnt, inflightCnt,
                   connCancel, connFailed>>

\* g.Wait() returns when no attempt is running
ConnReturn ==
    /\ connpc = "wait" /\ Inflight = 0
    /\ connpc' = "returned"
    /\ UNCHANGED <<chatVars, lineVars, joinVars, dataVars, adv, connRec, nDiscovered, consumedCnt, attemptCnt, inflightCnt,
                   connCancel, connFailed>>

ConnStart(pc) ==
    /\ connpc = pc /\ connRec = NoRec /\ nDiscovered = 0
    /\ consumedCnt = [rec \in DiscRecords |-> 0]
    /\ attemptCnt = [rec \in DiscRecords |-> 0]
    /\ inflightCnt = [rec \in DiscRecords |-> 0]
    /\ connCancel = FALSE /\ connFailed = FALSE
    /\ adv = IF pc \in {"idle", "advertise"} THEN NoAdv ELSE AdvStarted

\* ------------------------------- one input line at a time, by character
\* The path of a line from the input box to its effect, with nothing else
\* going on: the input capture of NewUI, the case of UI.start that receives
\* it, and UI.handleCommand. A text is the sequence of its characters.
LineChars == {" ", "a"}
QuitCmd == <<"/", "q", "u", "i", "t">>
ClearCmd == <<"/", "c", "l", "e", "a", "r">>
RoomCmd == <<"/", "r", "o", "o", "m">>
UserCmd == <<"/", "u", "s", "e", "r">>
defaultUserText == <<"i", "n", "c", "o", "g", "n", "i", "t", "o">>
defaultRoomText == <<"l", "o", "b", "b", "y">>

Tails == UNION {[1..n -> LineChars] : n \in 0..MaxTail}
Lines == {p \o t : p \in {<<>>, QuitCmd, RoomCmd, UserCmd}, t \in Tails}

\* unicode.IsSpace, for the characters at hand
IsSpace(c) == c \in {" ", "\t", "\n", "\r"}
\* len(strings.TrimSpace(line)) == 0
IsBlank(line) == \A i \in 1..Len(line) : IsSpace(line[i])
\* strings.HasPrefix(line, "/")
HasSigil(line) == Len(line) >= 1 /\ line[1] = "/"
\* strings.SplitN(line, " ", 2)
SplitN2(line) ==
    IF \E i \in 1..Len(line) : line[i] = " "
    THEN LET i == CHOOSE k \in 1..Len(line) :
                     line[k] = " " /\ \A j \in 1..(k - 1) : line[j] # " "
         IN  <<SubSeq(line, 1, i - 1), SubSeq(line, i + 1, Len(line))>>
    ELSE <<line>>

NoSent == [chan |-> "none", Type |-> <<>>, Arg |-> <<>>, line |-> <<>>]
NoChat == [Message |-> <<>>, SenderID |-> "", SenderName |-> <<>>]
NoShown == [kind |-> "none", text |-> <<>>]

\* the input capture: a blank line is dropped, a line with the sigil is split
\* once into a uiCommand (an absent argument is ""), any other line is a message
Capture(line) ==
    IF IsBlank(line) THEN NoSent
    ELSE IF HasSigil(line)
    THEN LET cmdparts == SplitN2(line)
         IN  [chan |-> "cmdchan", Type |-> cmdparts[1],
              Arg |-> IF Len(cmdparts) = 1 THEN <<>> ELSE cmdparts[2], line |-> <<>>]
    ELSE [chan |-> "msgchan", Type |-> <<>>, Arg |-> <<>>, line |-> line]

\* ChatRoom.UpdateUser: the four strings.ReplaceAll
IsStripped(c) == c \in {" ", "\t", "\n", "\r"}
IsKept(c) == ~IsStripped(c)
UpdateUserKeepsAll(username) == username
UpdateUser(username) == SelectSeq(username, IsKept)

\* the switch of UI.handleCommand
Branch(c, room, user) ==
    IF c.Type = QuitCmd THEN "stop"
    ELSE IF c.Type = ClearCmd THEN "clear"
    ELSE IF c.Type = RoomCmd
    THEN IF c.Arg = <<>> THEN "missingRoom"
         ELSE IF c.Arg = room THEN "sameRoom" ELSE "changeRoom"
    ELSE IF c.Type = UserCmd
    THEN IF c.Arg = <<>> THEN "missingUser"
         ELSE IF c.Arg = user THEN "sameUser" ELSE "updateUser"
    ELSE "unsupported"

\* the LogMessage a branch sends on ui.Logs, which UI.start prints
LogOf(branch) ==
    IF branch \in {"missingRoom", "missingUser", "unsupported", "changeRoom", "changeRoomFailed"}
    THEN [kind |-> "log", text |-> <<branch>>]
    ELSE NoShown

\* the history LoadHistory gives a room
OldText == [Message |-> <<"a">>, SenderID |-> Peer, SenderName |-> <<"a", "a">>]

\* the user submits the text of the input box
LineSubmit ==
    /\ lpc = "input"
    /\ \E line \in Lines :
         /\ typed' = line
         /\ sent' = Capture(line)
         /\ lpc' = IF Capture(line).chan = "none" THEN "input" ELSE "select"
         /\ lBranch' = IF Capture(line).chan = "none" THEN "blank" ELSE ""
    /\ lOut' = NoChat /\ lShown' = NoShown
    /\ UNCHANGED <<chatVars, connVars, joinVars, dataVars, lRoom, lUser, lHistory>>

\* case msg := <-ui.MsgInputs: the ChatMessage goes on ui.Outbound, and
\* nothing is printed
LineRecvMsg ==
    /\ lpc = "select" /\ sent.chan = "msgchan"
    /\ lOut' = [Message |-> sent.line, SenderID |-> Self, SenderName |-> lUser]
    /\ lBranch' = "message"
    /\ lpc' = "input"
    /\ UNCHANGED <<chatVars, connVars, joinVars, dataVars, typed, sent, lRoom, lUser, lHistory, lShown>>

\* case cmd := <-ui.CmdInputs: go ui.handleCommand(cmd)
LineRecvCmd ==
    /\ lpc = "select" /\ sent.chan = "cmdchan"
    /\ lpc' = "handle"
    /\ UNCHANGED <<chatVars, connVars, joinVars, dataVars, typed, sent, lRoom, lUser, lHistory, lOut,
                   lShown, lBranch>>

\* UI.handleCommand to its return, changeRoom and UpdateUser included; the
\* NewChatRoom of changeRoom succeeds or fails
LineHandle ==
    /\ lpc = "handle"
    /\ LET b == Branch(sent, lRoom, lUser)
       IN  \/ /\ b # "changeRoom"
              /\ lBranch' = b
              /\ lShown' = LogOf(b)
              /\ lUser' = IF b = "updateUser" THEN UpdateUser(sent.Arg) ELSE lUser
              /\ lpc' = IF b = "stop" THEN "stopped" ELSE "input"
              /\ UNCHANGED <<lRoom, lHistory>>
           \/ /\ b = "changeRoom"
              /\ lBranch' = b
              /\ lShown' = LogOf(b)
              /\ lRoom' = IF sent.Arg = <<>> THEN defaultRoomText ELSE sent.Arg
              /\ lUser' = IF lUser = <<>> THEN defaultUserText ELSE lUser
              /\ lHistory' = <<OldText>>
              /\ lpc' = "input"
           \/ /\ b = "changeRoom"
              /\ lBranch' = "changeRoomFailed"
              /\ lShown' = LogOf("changeRoomFailed")
              /\ lpc' = "input"
              /\ UNCHANGED <<lRoom, lUser, lHistory>>
    /\ UNCHANGED <<chatVars, connVars, joinVars, dataVars, typed, sent, lOut>>

\* main: the flags -user and -room, empty or not, as NewChatRoom leaves them
LineStart(pc) ==
    /\ lpc = pc /\ typed = <<>> /\ sent = NoSent
    /\ lOut = NoChat /\ lShown = NoShown /\ lBranch = ""
    /\ lHistory = <<OldText>>
    /\ IF pc = "idle"
       THEN lRoom = defaultRoomText /\ lUser = defaultUserText
       ELSE /\ lRoom \in {defaultRoomText, <<"a">>}
            /\ lUser \in {defaultUserText, <<"a">>}

\* ------------------------------------------ the topic a room is joined on
Nodes == {Self, Peer}
NoJoin == <<"no join">>
TopicPrefix == <<"r", "o", "o", "m", "-", "p", "e", "e", "r", "c", "h", "a", "t", "-">>

\* fmt.Sprintf("room-peerchat-%s", room)
TopicNameNumbered(room) ==
    TopicPrefix \o room \o <<Cardinality({n \in Nodes : joinRoom[n] # NoJoin})>>
TopicName(room) == TopicPrefix \o room

\* if room == "" { room = defaultRoom }: the RoomName field of the ChatRoom
\* NewChatRoom builds from the argument room
RoomNameOf(room) == IF room = <<>> THEN defaultRoomText ELSE room

\* the first statement of NewChatRoom on node n, for the -room flag of main
\* or the argument of changeRoom
Join(n) ==
    /\ \E room \in Tails :
         /\ joinRoom' = [joinRoom EXCEPT ![n] = room]
         /\ joinTopic' = [joinTopic EXCEPT ![n] = TopicName(room)]
    /\ UNCHANGED <<chatVars, connVars, lineVars, dataVars>>

JoinStart ==
    /\ joinRoom = [n \in Nodes |-> NoJoin]
    /\ joinTopic = [n \in Nodes |-> NoJoin]

\* ------------------------------------------------------ the message store
\* storage.File on the log of one room: the file as a sequence of lines, and
\* the calls NewChatRoom, PubLoop, ClearHistory and Exit make on it.

\* a message whose text alone fills the buffer of the scanner; the length of
\* a record line is at least that of its text, which its id stands for
BigMsg == [id |-> MaxScanTokenSize, senderId |-> Self, senderName |-> "incognito"]
ByteLen(line) == IF IsJSON(line) THEN line[2] ELSE Len(line)

RecordLines == {Marshal(OldMsg), Marshal(EchoMsg), Marshal(BigMsg)}
StoreLines == {<<>>, Garbage} \cup RecordLines
LogContents == UNION {[1..n -> StoreLines] : n \in 0..MaxLog}

\* scanner.Scan() stops at a line that does not fit its buffer, and
\* scanner.Err() is then bufio.ErrTooLong
ScanErr(lines) == \E i \in 1..Len(lines) : ByteLen(lines[i]) >= MaxScanTokenSize

\* File.LoadMessages with both of its results
NoLoad == [msgs |-> <<>>, err |-> "no call"]
LoadResultOnce(lines) ==
    IF lastLoad = NoLoad /\ ~ScanErr(lines)
    THEN [msgs |-> LoadMessages(lines), err |-> "nil"]
    ELSE [msgs |-> <<>>, err |-> "nil"]
LoadResult(lines) ==
    IF ScanErr(lines) THEN [msgs |-> <<>>, err |-> "scan file"]
    ELSE [msgs |-> LoadMessages(lines), err |-> "nil"]

NoChange == [ev |-> "none", line |-> <<>>]
AfterSave(since, line) ==
    IF since.ev = "none" THEN [ev |-> "append", line |-> line]
    ELSE [ev |-> "mixed", line |-> <<>>]

\* File.Clear is called by ChatRoom.ClearHistory and is not among the files
\* of the repository at hand; the specification has it truncate the log
ClearKeepsLog(lines) == lines
Clear(lines) == <<>>

\* PubLoop: cr.storage.SaveMessage(string(messagebytes))
StoreSave ==
    /\ Len(fileLines) < MaxLog
    /\ \E line \in RecordLines, ioOk \in BOOLEAN :
         /\ fileLines' = SaveMessage(fileLines, line, fileClosed, ioOk)
         /\ sinceLast' = IF fileClosed \/ ~ioOk THEN sinceLast
                         ELSE AfterSave(sinceLast, line)
    /\ UNCHANGED <<chatVars, connVars, lineVars, joinVars, rosterVars, codecVars, muVars,
                   fileClosed, lastLoad, prevLoad, sincePrev>>

\* NewChatRoom: storage.NewFile opens the log again, LoadHistory reads it
StoreLoad ==
    /\ fileClosed' = FALSE
    /\ prevLoad' = lastLoad
    /\ lastLoad' = LoadResult(fileLines)
    /\ sincePrev' = sinceLast
    /\ sinceLast' = NoChange
    /\ UNCHANGED <<chatVars, connVars, lineVars, joinVars, rosterVars, codecVars, muVars, fileLines>>

\* "/clear": ChatRoom.ClearHistory, whose error handleCommand logs
StoreClear ==
    /\ \E ok \in BOOLEAN :
         IF ok
         THEN /\ fileLines' = Clear(fileLines)
              /\ sinceLast' = [ev |-> "clear", line |-> <<>>]
         ELSE UNCHANGED <<fileLines, sinceLast>>
    /\ UNCHANGED <<chatVars, connVars, lineVars, joinVars, rosterVars, codecVars, muVars,
                   fileClosed, lastLoad, prevLoad, sincePrev>>

\* Exit: cr.storage.Close()
StoreClose ==
    /\ ~fileClosed
    /\ fileClosed' = TRUE
    /\ UNCHANGED <<chatVars, connVars, lineVars, joinVars, rosterVars, codecVars, muVars,
                   fileLines, lastLoad, prevLoad, sinceLast, sincePrev>>

\* NewFile on a log of any content
StoreStart(contents) ==
    /\ fileLines \in contents
    /\ fileClosed = FALSE
    /\ lastLoad = NoLoad /\ prevLoad = NoLoad
    /\ sinceLast = NoChange /\ sincePrev = NoChange

\* ------------------------------------- json.Marshal and json.Unmarshal
\* A ChatMessage with its strings as sequences of characters and its
\* CreatedAt as a time.Time: seconds and nanoseconds of the instant, the zone
\* offset in hours, and the monotonic clock reading time.Now() adds.
Quote == "\""
Backslash == "\\"
Newline == "\n"
InvalidByte == "xFF"        \* a byte that is no UTF-8 encoding
Replacement == "U+FFFD"     \* the Unicode replacement character
TextChars == {"a", Quote, Backslash, Newline, "<", Replacement, InvalidByte}
Texts(n) == UNION {[1..k -> TextChars] : k \in 0..n}

NoTime == [sec |-> 0, nsec |-> 0, off |-> 0, mono |-> 0]
Times == {[sec |-> 1, nsec |-> ns, off |-> o, mono |-> 7] :
             ns \in {0, 1, 120000000}, o \in {0, 2}}
NoWireMsg == [Message |-> <<>>, SenderID |-> <<>>, SenderName |-> <<>>, CreatedAt |-> NoTime]
\* the messages UI.start builds: any text, the peer id, any user name
WireMsgs == {[Message |-> t, SenderID |-> <<"Q", "m">>, SenderName |-> u, CreatedAt |-> c] :
                t \in Texts(MaxText), u \in Texts(1), c \in Times}

\* how the encoder writes one character of a string: the short escapes, \u
\* escapes for <, > and &, and the replacement character for invalid UTF-8
EncodeCharRaw(c) == <<c>>
EncodeChar(c) ==
    IF c = Quote THEN <<Backslash, Quote>>
    ELSE IF c = Backslash THEN <<Backslash, Backslash>>
    ELSE IF c = Newline THEN <<Backslash, "n">>
    ELSE IF c = "<" THEN <<Backslash, "u", "0", "0", "3", "c">>
    ELSE IF c = InvalidByte THEN <<Backslash, "u", "f", "f", "f", "d">>
    ELSE <<c>>

RECURSIVE EncodeBody(_)
EncodeBody(text) ==
    IF text = <<>> THEN <<>> ELSE EncodeChar(Head(text)) \o EncodeBody(Tail(text))
EncodeString(text) == <<Quote>> \o EncodeBody(text) \o <<Quote>>

\* the decoder: a string ends at the first quote that is not escaped
BadJSON == <<"invalid character">>
Unescape(c) == IF c = "n" THEN Newline ELSE c
HexChar(code) ==
    IF code = <<"0", "0", "3", "c">> THEN "<"
    ELSE IF code = <<"f", "f", "f", "d">> THEN Replacement
    ELSE "?"
RECURSIVE DecodeBody(_)
DecodeBody(w) ==
    IF w = <<>> THEN BadJSON
    ELSE IF w[1] = Quote THEN (IF Len(w) = 1 THEN <<>> ELSE BadJSON)
    ELSE IF w[1] = Backslash
    THEN IF Len(w) >= 6 /\ w[2] = "u"
         THEN <<HexChar(SubSeq(w, 3, 6))>> \o DecodeBody(SubSeq(w, 7, Len(w)))
         ELSE IF Len(w) >= 2 /\ w[2] \in {Quote, Backslash, "n"}
         THEN <<Unescape(w[2])>> \o DecodeBody(SubSeq(w, 3, Len(w)))
         ELSE BadJSON
    ELSE <<w[1]>> \o DecodeBody(Tail(w))
DecodeString(w) ==
    IF w # <<>> /\ w[1] = Quote THEN DecodeBody(Tail(w)) ELSE BadJSON

\* Time.MarshalJSON: RFC 3339 with the nanoseconds as a fraction without its
\* trailing zeros, and the zone as Z or an offset; no monotonic reading
Pow10(k) == IF k = 0 THEN 1 ELSE IF k = 1 THEN 10 ELSE IF k = 2 THEN 100
            ELSE IF k = 3 THEN 1000 ELSE IF k = 4 THEN 10000 ELSE IF k = 5 THEN 100000
            ELSE IF k = 6 THEN 1000000 ELSE IF k = 7 THEN 10000000 ELSE 100000000
FracDigits(nsec) ==
    LET ds == [i \in 1..9 |-> (nsec \div Pow10(9 - i)) % 10]
        used == {i \in 1..9 : ds[i] # 0}
    IN  IF used = {} THEN <<>>
        ELSE SubSeq(ds, 1, CHOOSE i \in used : \A j \in used : j <= i)
EncodeTime(t) == <<t.sec, FracDigits(t.nsec), IF t.off = 0 THEN <<"Z">> ELSE <<"+", t.off>>>>

\* Time.UnmarshalJSON
RECURSIVE FracValue(_, _)
FracValue(ds, i) ==
    IF i > Len(ds) THEN 0 ELSE ds[i] * Pow10(9 - i) + FracValue(ds, i + 1)
DecodeTime(w) ==
    [sec |-> w[1], nsec |-> FracValue(w[2], 1),
     off |-> IF Len(w[3]) = 1 THEN 0 ELSE w[3][2], mono |-> 0]

\* json.Marshal(message) and json.Unmarshal(data, cm), field by field
MarshalJSON(m) ==
    [message |-> EncodeString(m.Message), senderId |-> EncodeString(m.SenderID),
     senderName |-> EncodeString(m.SenderName), createdAt |-> EncodeTime(m.CreatedAt)]
UnmarshalJSON(w) ==
    [Message |-> DecodeString(w.message), SenderID |-> DecodeString(w.senderId),
     SenderName |-> DecodeString(w.senderName), CreatedAt |-> DecodeTime(w.createdAt)]

\* PubLoop: json.Marshal(message)
CodecMarshal ==
    /\ cpc = "built"
    /\ cWire' = MarshalJSON(cMsg)
    /\ cpc' = "marshalled"
    /\ UNCHANGED <<chatVars, connVars, lineVars, joinVars, rosterVars, storeVars, muVars, cMsg, cBack>>

\* SubLoop of a peer, or LoadMessages: json.Unmarshal of those bytes
CodecUnmarshal ==
    /\ cpc = "marshalled"
    /\ cBack' = UnmarshalJSON(cWire)
    /\ cpc' = "unmarshalled"
    /\ UNCHANGED <<chatVars, connVars, lineVars, joinVars, rosterVars, storeVars, muVars, cMsg, cWire>>

CodecStart(pc) ==
    /\ cpc = pc
    /\ IF pc = "idle" THEN cMsg = NoWireMsg ELSE cMsg \in WireMsgs
    /\ cWire = MarshalJSON(NoWireMsg) /\ cBack = NoWireMsg
CodecIdle == CodecStart("idle")

\* ------------------------- SaveMessage and LoadMessages, step by step
\* The callers of one storage.File: each calls SaveMessage or LoadMessages,
\* again and again. The file system takes every write as a whole.
Callers == {"c1", "c2"}
DefaultBufSize == 4096
\* the line a SaveMessage has written in part: the bytes that filled the
\* buffer (HeadOf), the bytes after them (RestOf)
HeadOf(line) == <<"head", line>>
RestOf(line) == <<"rest", line>>
IsWhole(line) == line \in StoreLines

\* s.mu.Lock() goes on when the mutex is free
CanLockAlways(m) == TRUE
CanLock(m) == m = "free"

\* the call, with its argument
MuSaveCall(t) ==
    /\ fpc[t] = "idle" /\ Len(fileLines) + Len(wbuf) < MaxLog
    /\ \E line \in RecordLines : fLine' = [fLine EXCEPT ![t] = line]
    /\ fpc' = [fpc EXCEPT ![t] = "lockSave"]
    /\ UNCHANGED <<chatVars, connVars, lineVars, joinVars, rosterVars, storeVars, codecVars, mu, wbuf>>

MuLoadCall(t) ==
    /\ fpc[t] = "idle"
    /\ fpc' = [fpc EXCEPT ![t] = "lockLoad"]
    /\ UNCHANGED <<chatVars, connVars, lineVars, joinVars, rosterVars, storeVars, codecVars, mu, fLine, wbuf>>

\* s.mu.Lock(); defer s.mu.Unlock()
MuLock(t) ==
    /\ fpc[t] \in {"lockSave", "lockLoad"} /\ CanLock(mu)
    /\ mu' = t
    /\ fpc' = [fpc EXCEPT ![t] = IF @ = "lockSave" THEN "write" ELSE "read"]
    /\ UNCHANGED <<chatVars, connVars, lineVars, joinVars, rosterVars, storeVars, codecVars, fLine, wbuf>>

\* s.writer.WriteString(msg + "\n"): a string that fits in the buffer is
\* copied into it; one that does not fit goes to the file as it is when the
\* buffer is empty, and else fills the buffer, which is written, before its
\* remaining bytes go the same way
MuWriteString(t) ==
    /\ fpc[t] \in {"write", "rest"}
    /\ IF fpc[t] = "rest"
       THEN /\ fileLines' =
                  IF fileLines # <<>> /\ fileLines[Len(fileLines)] = HeadOf(fLine[t])
                  THEN [fileLines EXCEPT ![Len(fileLines)] = fLine[t]]
                  ELSE Append(fileLines, RestOf(fLine[t]))
            /\ fpc' = [fpc EXCEPT ![t] = "flush"]
            /\ UNCHANGED wbuf
       ELSE IF ByteLen(fLine[t]) + 1 <= DefaultBufSize
       THEN /\ wbuf' = Append(wbuf, fLine[t])
            /\ fpc' = [fpc EXCEPT ![t] = "flush"]
            /\ UNCHANGED fileLines
       ELSE IF wbuf = <<>>
       THEN /\ fileLines' = Append(fileLines, fLine[t])
            /\ fpc' = [fpc EXCEPT ![t] = "flush"]
            /\ UNCHANGED wbuf
       ELSE /\ fileLines' = fileLines \o wbuf \o <<HeadOf(fLine[t])>>
            /\ wbuf' = <<>>
            /\ fpc' = [fpc EXCEPT ![t] = "rest"]
    /\ UNCHANGED <<chatVars, connVars, lineVars, joinVars, rosterVars, codecVars, mu, fLine,
                   fileClosed, lastLoad, prevLoad, sinceLast, sincePrev>>

\* s.writer.Flush(): the buffer goes to the file
MuFlush(t) ==
    /\ fpc[t] = "flush"
    /\ fileLines' = fileLines \o wbuf
    /\ wbuf' = <<>>
    /\ fpc' = [fpc EXCEPT ![t] = "unlock"]
    /\ UNCHANGED <<chatVars, connVars, lineVars, joinVars, rosterVars, codecVars, mu, fLine,
                   fileClosed, lastLoad, prevLoad, sinceLast, sincePrev>>

\* LoadMessages: os.Open, the scan of the file, the result
MuRead(t) ==
    /\ fpc[t] = "read"
    /\ lastLoad' = LoadResult(fileLines)
    /\ fpc' = [fpc EXCEPT ![t] = "unlock"]
    /\ UNCHANGED <<chatVars, connVars, lineVars, joinVars, rosterVars, codecVars, mu, fLine, wbuf,
                   fileLines, fileClosed, prevLoad, sinceLast, sincePrev>>

\* the deferred s.mu.Unlock(), and the return
MuUnlock(t) ==
    /\ fpc[t] = "unlock"
    /\ mu' = IF mu = t THEN "free" ELSE mu
    /\ fpc' = [fpc EXCEPT ![t] = "idle"]
    /\ fLine' = [fLine EXCEPT ![t] = <<>>]
    /\ UNCHANGED <<chatVars, connVars, lineVars, joinVars, rosterVars, storeVars, codecVars, wbuf>>

MuStart ==
    /\ mu = "free" /\ wbuf = <<>>
    /\ fpc = [t \in Callers |-> "idle"] /\ fLine = [t \in Callers |-> <<>>]

RosterStart == peerBox = NoRoom /\ nTicks = 0
DataIdle == StoreStart({<<>>}) /\ CodecIdle /\ MuStart /\ RosterStart

\* ------------------------------------- case "/user" of UI.handleCommand
\* the user names at hand, and the characters of each
NameText ==
    [n \in {"", "a", "b", "a b", "ab", defaultUser} |->
        CASE n = "" -> <<>>
          [] n = "a" -> <<"a">>
          [] n = "b" -> <<"b">>
          [] n = "a b" -> <<"a", " ", "b">>
          [] n = "ab" -> <<"a", "b">>
          [] OTHER -> defaultUserText]
UserArgs == {"", "a", "b", "a b"}
UserLines == {[kind |-> "cmd", id |-> 0, type |-> "/user", arg |-> a] : a \in UserArgs}

\* cr.UserName = username after the four strings.ReplaceAll
UpdateUserName(arg) ==
    CHOOSE n \in DOMAIN NameText : NameText[n] = UpdateUser(NameText[arg])

\* the branch on cmd.Arg: "missing user name" goes to ui.Logs, a name equal
\* to ui.ChatRoom.UserName returns, any other goes to ui.UpdateUser
CmdUser(g) ==
    /\ running /\ cmd[g].pc = "start" /\ cmd[g].type = "/user"
    /\ cmd' = [cmd EXCEPT ![g] =
                 IF cmd[g].arg = "" THEN [@ EXCEPT !.pc = "logMissing", !.logRoom = active]
                 ELSE IF cmd[g].arg = UserName[active] THEN [@ EXCEPT !.pc = "done"]
                 ELSE [@ EXCEPT !.pc = "updateUser"]]
    /\ UNCHANGED <<procVars, uiVars, nCmds, roomFields, exitVars, subVars, pubVars,
                   logFile, connVars, lineVars, joinVars, dataVars, zeroShown>>

\* ui.UpdateUser(cmd.Arg): UpdateUser of the room ui.ChatRoom names now; the
\* redraw of the input box title changes nothing of the rooms
CmdUpdateUser(g) ==
    /\ running /\ cmd[g].pc = "updateUser"
    /\ UserName' = [UserName EXCEPT ![active] = UpdateUserName(cmd[g].arg)]
    /\ cmd' = [cmd EXCEPT ![g].pc = "done"]
    /\ UNCHANGED <<procVars, uiVars, nCmds, nRooms, rstate, RoomName, History, exitVars,
                   subVars, pubVars, logFile, connVars, lineVars, joinVars, dataVars, zeroShown>>

\* --------------------------------------------------------------- the chat

InitLog == [n \in RoomNames |->
              IF n = "lobby" THEN <<Marshal(OldMsg)>> ELSE <<Garbage, Marshal(OldMsg)>>]

\* main: NewChatRoom(p2p, "", "") returned the lobby; NewUI; ui.Run
ChatInit ==
    /\ running = TRUE /\ pending = NoLine /\ nMsgs = 0
    /\ active = 1 /\ uipc = "select" /\ sel = 1
    /\ outRoom = NoRoom /\ outMsg = NoMsg
    /\ cmd = [g \in CmdIds |-> NoCmd] /\ nCmds = 0
    /\ nRooms = 1
    /\ rstate = [r \in RoomIds |-> IF r = 1 THEN "ok" ELSE "none"]
    /\ RoomName = [r \in RoomIds |-> IF r = 1 THEN defaultRoom ELSE ""]
    /\ UserName = [r \in RoomIds |-> IF r = 1 THEN defaultUser ELSE ""]
    /\ logFile = InitLog
    /\ History = [r \in RoomIds |-> IF r = 1 THEN LoadMessages(InitLog[defaultRoom]) ELSE <<>>]
    /\ ctxDone = [r \in RoomIds |-> FALSE]
    /\ storClosed = [r \in RoomIds |-> FALSE]
    /\ subCancelled = [r \in RoomIds |-> FALSE]
    /\ topicClosed = [r \in RoomIds |-> FALSE]
    /\ exitCalls = [r \in RoomIds |-> 0]
    /\ fdReleases = [r \in RoomIds |-> 0]
    /\ inClosed = [r \in RoomIds |-> FALSE]
    /\ subpc = [r \in RoomIds |-> IF r = 1 THEN "next" ELSE "none"]
    /\ subMsg = [r \in RoomIds |-> NoMsg]
    /\ pubpc = [r \in RoomIds |-> IF r = 1 THEN "recv" ELSE "none"]
    /\ pubMsg = [r \in RoomIds |-> NoMsg]
    /\ enqueued = [r \in RoomIds |-> <<>>]
    /\ published = [r \in RoomIds |-> <<>>]
    /\ nRecv = 0
    /\ zeroShown = {}

\* the chat, with the peer connector left aside
Init == ChatInit /\ ConnStart("idle") /\ LineStart("idle") /\ JoinStart /\ DataIdle

RoomStep(r) ==
    \/ PubDone(r) \/ PubPublishFail(r) \/ PubPublishOk(r) \/ PubSave(r)
    \/ SubDone(r) \/ SubNextErr(r) \/ SubNextRec(r)

CmdStep(g) ==
    \/ CmdQuit(g) \/ CmdRoom(g) \/ CmdNewRoomErr(g) \/ CmdNewRoom(g)
    \/ CmdReadOld(g) \/ CmdRebind(g)
    \/ CmdExitStore(g) \/ CmdExitSub(g) \/ CmdExitTopic(g) \/ CmdExitCancel(g)

UIStep ==
    \/ UIRecvMsg \/ UIRecvCmd \/ UISendOut
    \/ UIRecvInbound \/ UIRecvClosed \/ UIRecvLogPub \/ UIRecvLogSub
    \/ (\E g \in CmdIds : UIRecvLogCmd(g))
    \/ UITick

Next ==
    \/ UserSubmit
    \/ UIStep
    \/ (\E g \in CmdIds : CmdStep(g))
    \/ (\E r \in RoomIds : RoomStep(r))

Spec == Init /\ [][Next]_vars

\* Every goroutine that can take a step eventually takes one; the user is
\* not obliged to type.
ChatFairness ==
    /\ WF_vars(UIStep)
    /\ \A g \in CmdIds : WF_vars(CmdStep(g))
    /\ \A r \in RoomIds : WF_vars(PubDone(r) \/ PubPublishFail(r) \/ PubPublishOk(r) \/ PubSave(r))
    /\ \A r \in RoomIds : WF_vars(SubDone(r) \/ SubNextErr(r))
FairSpec == Spec /\ ChatFairness

\* the handover on its own: the user types only `/room` commands, up to
\* MaxInputs of them, while the other peers publish up to MaxHandoverRecords
\* records in the rooms of this node
RoomLines == {l \in CmdLines : l.type = "/room"}
HandoverSubmit ==
    /\ nCmds + (IF pending.kind = "cmd" THEN 1 ELSE 0) < MaxInputs
    /\ SubmitCmd(RoomLines)
HandoverRecord(r) == nRecv < MaxHandoverRecords /\ SubNext(r)
HandoverNext ==
    \/ HandoverSubmit
    \/ UIRecvCmd \/ UIRecvInbound \/ UIRecvClosed \/ UIRecvLogSub \/ UITick
    \/ (\E g \in CmdIds : UIRecvLogCmd(g))
    \/ (\E g \in CmdIds :
          \/ CmdRoom(g) \/ CmdNewRoomErr(g) \/ CmdNewRoom(g)
          \/ CmdReadOld(g) \/ CmdRebind(g)
          \/ CmdExitStore(g) \/ CmdExitSub(g) \/ CmdExitTopic(g) \/ CmdExitCancel(g))
    \/ (\E r \in RoomIds :
          PubDone(r) \/ SubDone(r) \/ SubNextErr(r) \/ HandoverRecord(r))
SpecHandover == Init /\ [][HandoverNext]_vars /\ ChatFairness

\* the user names and the rooms: the user types only `/user` and `/room`
\* commands, up to MaxInputs of them
NameSubmit ==
    /\ nCmds + (IF pending.kind = "cmd" THEN 1 ELSE 0) < MaxInputs
    /\ SubmitCmd(UserLines \cup {l \in RoomLines : l.arg = "other"})
NameNext ==
    \/ NameSubmit
    \/ UIRecvCmd \/ UIRecvClosed \/ UIRecvLogSub \/ UITick
    \/ (\E g \in CmdIds : UIRecvLogCmd(g))
    \/ (\E g \in CmdIds :
          \/ CmdUser(g) \/ CmdUpdateUser(g)
          \/ CmdRoom(g) \/ CmdNewRoomErr(g) \/ CmdNewRoom(g)
          \/ CmdReadOld(g) \/ CmdRebind(g)
          \/ CmdExitStore(g) \/ CmdExitSub(g) \/ CmdExitTopic(g) \/ CmdExitCancel(g))
    \/ (\E r \in RoomIds : PubDone(r) \/ SubDone(r) \/ SubNextErr(r))
SpecName == Init /\ [][NameNext]_vars

\* one storage.File and the concurrent callers of its two locked methods
MuInit ==
    /\ ChatInit /\ ConnStart("idle") /\ LineStart("idle") /\ JoinStart
    /\ StoreStart({<<>>, <<Marshal(OldMsg)>>}) /\ CodecIdle /\ MuStart /\ RosterStart
MuNext ==
    \E t \in Callers :
        \/ MuSaveCall(t) \/ MuLoadCall(t) \/ MuLock(t)
        \/ MuWriteString(t) \/ MuFlush(t) \/ MuRead(t) \/ MuUnlock(t)
SpecMu == MuInit /\ [][MuNext]_vars

\* the peer box while the user changes rooms
RosterSubmit ==
    /\ nCmds + (IF pending.kind = "cmd" THEN 1 ELSE 0) < MaxSwitches
    /\ SubmitCmd(RoomLines)
RosterNext ==
    \/ RosterSubmit
    \/ UISyncPeerBox \/ UIRecvCmd \/ UIRecvClosed \/ UIRecvLogSub
    \/ (\E g \in CmdIds : UIRecvLogCmd(g))
    \/ (\E g \in CmdIds :
          \/ CmdRoom(g) \/ CmdNewRoomErr(g) \/ CmdNewRoom(g)
          \/ CmdReadOld(g) \/ CmdRebind(g)
          \/ CmdExitStore(g) \/ CmdExitSub(g) \/ CmdExitTopic(g) \/ CmdExitCancel(g))
    \/ (\E r \in RoomIds : PubDone(r) \/ SubDone(r) \/ SubNextErr(r))
SpecRoster == Init /\ [][RosterNext]_vars

\* the chat with subscriptions that may fail on their own
SpecSubFail == Init /\ [][Next \/ (\E r \in RoomIds : SubFail(r))]_vars

\* the peer connector on its own: AdvertiseConnect started handlePeerDiscovery
ConnInit == ChatInit /\ ConnStart("range") /\ LineStart("idle") /\ JoinStart /\ DataIdle
ConnNext ==
    \/ ConnRecv \/ ConnGo \/ ConnStreamClosed \/ ConnReturn
    \/ (\E rec \in DiscRecords : ConnAttemptEnd(rec))
SpecConn == ConnInit /\ [][ConnNext]_vars

\* Every attempt ends (Connect returns within its 10 s timeout), and g.Go and
\* g.Wait go on when they can; the discovery stream owes nothing.
ConnFairness ==
    /\ WF_vars(ConnGo) /\ WF_vars(ConnReturn)
    /\ \A rec \in DiscRecords : WF_vars(ConnAttemptEnd(rec))
FairSpecConn == SpecConn /\ ConnFairness

\* AdvertiseConnect from its first statement, then the peer connector
AdvertiseInit == ChatInit /\ ConnStart("advertise") /\ LineStart("idle") /\ JoinStart /\ DataIdle
AdvertiseNext == ConnAdvertise \/ ConnFindPeers \/ ConnNext
SpecAdvertise == AdvertiseInit /\ [][AdvertiseNext]_vars

\* the peer connector with a p.Ctx that its holder may cancel
SpecConnCancel == ConnInit /\ [][ConnNext \/ ConnCancel]_vars /\ ConnFairness

\* one line at a time through the input capture, UI.start and handleCommand
LineInit == ChatInit /\ ConnStart("idle") /\ LineStart("input") /\ JoinStart /\ DataIdle
LineNext == LineSubmit \/ LineRecvMsg \/ LineRecvCmd \/ LineHandle
SpecLine == LineInit /\ [][LineNext]_vars

\* the nodes of the network, each joining the topics of its rooms
JoinNext == \E n \in Nodes : Join(n)
SpecJoin == Init /\ [][JoinNext]_vars

\* the log of one room under loads, saves, clears and closes
StoreInit ==
    /\ ChatInit /\ ConnStart("idle") /\ LineStart("idle") /\ JoinStart
    /\ StoreStart(LogContents) /\ CodecIdle /\ MuStart /\ RosterStart
\* one message through the wire format and back
CodecInit ==
    /\ ChatInit /\ ConnStart("idle") /\ LineStart("idle") /\ JoinStart
    /\ StoreStart({<<>>}) /\ CodecStart("built") /\ MuStart /\ RosterStart
CodecNext == CodecMarshal \/ CodecUnmarshal
SpecCodec == CodecInit /\ [][CodecNext]_vars

StoreNext == StoreSave \/ StoreLoad \/ StoreClear \/ StoreClose
SpecStore == StoreInit /\ [][StoreNext]_vars

\* ============================================================= properties

\* C1: for every record SubLoop reads from its subscription, no ChatMessage
\* whose senderId is the local peer identity is pushed onto Inbound: whenever
\* SubLoop is at cr.Inbound <- *cm, the message's senderId is not Self.
C1_NoOwnMessageInbound ==
    \A r \in RoomIds : subpc[r] = "sendIn" => subMsg[r].senderId # Self

\* C2: while the program runs, ui.ChatRoom names a ChatRoom that NewChatRoom
\* returned without error and on which Exit has not been called; a changeRoom
\* about to rebind holds such a ChatRoom, and a changeRoom inside Exit has
\* rebound already: the room it exits is not the active one.
C2_ActiveRoomConstructedNotExited ==
    /\ running => (rstate[active] = "ok" /\ exitCalls[active] = 0)
    /\ \A g \in CmdIds :
         /\ cmd[g].pc \in {"readOld", "rebind"} => rstate[cmd[g].new] = "ok"
         /\ (running /\ cmd[g].pc \in {"exitStore", "exitSub", "exitTopic", "exitCancel"})
               => /\ rstate[cmd[g].new] = "ok"
                  /\ ExitTarget(g) # active
                  /\ ExitTarget(g) # cmd[g].new

\* C2 witness: a switch is over: the active room is a later one, and the
\* first room has been exited and cancelled.
C2_SwitchDone ==
    /\ running /\ active # 1 /\ rstate[active] = "ok"
    /\ exitCalls[1] >= 1 /\ ctxDone[1]
    /\ \E g \in CmdIds : cmd[g].pc = "done"

\* C3: when a switch completes (Exit of the old room returns) the old room's
\* context is cancelled; the history of the new room is LoadMessages of the
\* room's log at the time it is built; and once the old room has been exited
\* and cancelled, the event loop receives nothing more from its Inbound.
C3_NoDeliveryFromOldRoom ==
    [][ /\ \A g \in CmdIds :
             /\ (cmd[g].pc = "exitCancel" /\ cmd'[g].pc = "done") => ctxDone'[cmd[g].old]
             /\ (cmd[g].pc = "newRoom" /\ cmd'[g].pc = "readOld")
                   => History'[cmd'[g].new] = LoadMessages(logFile[cmd[g].arg])
        /\ \A r \in RoomIds :
             (running /\ exitCalls[r] >= 1 /\ ctxDone[r])
                => ~(subpc[r] = "sendIn" /\ subpc'[r] = "next")
      ]_vars

\* C4: a changeRoom whose NewChatRoom fails goes to send its LogMessage and
\* that step leaves ui.ChatRoom, the Exit state of every room, and the loops,
\* room name and user name of the active room as they are; after it the
\* goroutine only returns. Otherwise the new room is built, with its history
\* loaded. ui.ChatRoom is only ever set by a changeRoom holding a built room,
\* and Exit only runs in a changeRoom that has rebound.
C4_SwitchAllOrNothing ==
    [][ /\ \A g \in CmdIds :
             /\ (cmd[g].pc = "newRoom" /\ cmd'[g].pc # "newRoom")
                   => \/ /\ cmd'[g].pc = "logFail" /\ cmd'[g].logRoom = active
                         /\ UNCHANGED <<active, exitVars>>
                         /\ subpc'[active] = subpc[active] /\ pubpc'[active] = pubpc[active]
                         /\ RoomName'[active] = RoomName[active]
                         /\ UserName'[active] = UserName[active]
                         /\ History'[active] = History[active]
                      \/ /\ cmd'[g].pc = "readOld"
                         /\ rstate'[cmd'[g].new] = "ok"
                         /\ RoomName'[cmd'[g].new] = cmd[g].arg
                         /\ History'[cmd'[g].new] = LoadMessages(logFile[cmd[g].arg])
             /\ cmd[g].pc = "logFail" => cmd'[g].pc \in {"logFail", "done"}
        /\ active' # active
              => \E g \in CmdIds : /\ cmd[g].pc = "rebind" /\ active' = cmd[g].new
                                   /\ rstate[cmd[g].new] = "ok"
        /\ (running' /\ exitVars' # exitVars)
              => \E g \in CmdIds :
                    /\ cmd[g].pc \in {"exitStore", "exitSub", "exitTopic", "exitCancel"}
                    /\ rstate[cmd[g].new] = "ok"
      ]_vars

\* C4 witness: a changeRoom whose NewChatRoom failed in LoadHistory is sending
\* its LogMessage, and the room that was active is active and not exited.
C4_FailedSwitchLogged ==
    \E g \in CmdIds :
        /\ running /\ cmd[g].pc = "logFail" /\ cmd[g].new # NoRoom
        /\ rstate[cmd[g].new] = "failed"
        /\ active = cmd[g].logRoom /\ exitCalls[active] = 0 /\ rstate[active] = "ok"

\* C5: the event loop is never blocked in ui.Outbound <- m while the PubLoop
\* that could receive it is itself blocked in cr.Logs <- ... or has returned.
C5_OutboundSendNotStuck ==
    ~(running /\ uipc = "sendOut" /\ pubpc[outRoom] \in {"logPublish", "done"})

\* C6: in every room the messages are published in the order they were taken
\* from Outbound: each published message was enqueued, and of two published
\* messages the one published first was enqueued first.
C6_PublishInEnqueueOrder ==
    \A r \in RoomIds :
        LET Pos(seq, id) == CHOOSE i \in 1..Len(seq) : seq[i] = id
        IN  /\ \A i \in 1..Len(published[r]) :
                  \E k \in 1..Len(enqueued[r]) : enqueued[r][k] = published[r][i]
            /\ \A i, j \in 1..Len(published[r]) :
                  i < j => Pos(enqueued[r], published[r][i]) < Pos(enqueued[r], published[r][j])

\* C6 witness: a room has published two messages.
C6_TwoPublished ==
    \E r \in RoomIds : Len(published[r]) = 2 /\ Len(enqueued[r]) = 2

\* C7: the lines appended to a room's log are the successfully published
\* messages and only those, in publish order: every published message whose
\* SaveMessage call is over is among the appended lines, in the order of
\* publishing, and every appended line is a published message of that room.
C7_LogIsPublishedMessages ==
    LET Appended(n) ==
            [i \in 1..(Len(logFile[n]) - Len(InitLog[n])) |->
                Unmarshal(logFile[n][Len(InitLog[n]) + i]).id]
        Saved(r) ==
            IF pubpc[r] = "save" THEN SubSeq(published[r], 1, Len(published[r]) - 1)
            ELSE published[r]
    IN  /\ \A r \in RoomIds :
              rstate[r] # "none" =>
                 /\ \A i \in 1..Len(Saved(r)) :
                       \E k \in 1..Len(Appended(RoomName[r])) :
                           Appended(RoomName[r])[k] = Saved(r)[i]
                 /\ \A i, j \in 1..Len(Saved(r)) :
                       i < j => \E k, l \in 1..Len(Appended(RoomName[r])) :
                                   /\ k < l
                                   /\ Appended(RoomName[r])[k] = Saved(r)[i]
                                   /\ Appended(RoomName[r])[l] = Saved(r)[j]
        /\ \A n \in RoomNames :
              \A k \in 1..Len(Appended(n)) :
                  \E r \in RoomIds :
                      /\ RoomName[r] = n
                      /\ \E i \in 1..Len(published[r]) : published[r][i] = Appended(n)[k]

\* C8: once a room's context is cancelled, its SubLoop and its PubLoop both
\* return eventually (or the process ends first): neither stays blocked.
C8_LoopsTerminate ==
    \A r \in RoomIds :
        [](( running /\ ctxDone[r])
              => <>(~running \/ (subpc[r] = "done" /\ pubpc[r] = "done")))

\* C9: handlePeerDiscovery never has more than 5 connection attempts running.
C9_AtMostFiveInFlight ==
    Inflight <= ConnectLimit

\* C9 witness: five attempts are running and g.Go holds a sixth record back.
C9_SixthWaits ==
    /\ Inflight = ConnectLimit /\ connpc = "go" /\ ~SlotFree
    /\ nDiscovered > ConnectLimit

\* C10, as stated: no attempt for a record of the local ID or without
\* addresses, and no peer is attempted more than once, however often it
\* appears in the stream.
C10_OncePerPeer ==
    \A rec \in DiscRecords :
        IF rec.id = Self \/ rec.addrs = 0
        THEN attemptCnt[rec] = 0
        ELSE attemptCnt[rec] <= 1

\* C10, amended: no attempt for a record of the local ID or without
\* addresses, and exactly one attempt for every other record of the stream:
\* a peer is attempted as often as it appears (the record g.Go is holding
\* back has its attempt still to come).
C10_OncePerRecord ==
    \A rec \in DiscRecords :
        IF rec.id = Self \/ rec.addrs = 0
        THEN attemptCnt[rec] = 0
        ELSE attemptCnt[rec] + (IF connpc = "go" /\ connRec = rec THEN 1 ELSE 0)
                = consumedCnt[rec]

\* C10 witness: the stream held the local ID and a record without addresses,
\* and a peer that appeared twice was attempted twice.
C10_RepeatedPeerAttemptedAgain ==
    /\ consumedCnt[[id |-> Self, addrs |-> 1]] >= 1
    /\ consumedCnt[[id |-> "p1", addrs |-> 0]] >= 1
    /\ \E rec \in DiscRecords : attemptCnt[rec] >= 2 /\ consumedCnt[rec] = attemptCnt[rec]

\* C11: a failed or timed-out attempt does not stop the consumption of the
\* stream: it cancels nothing (the context of the errgroup stays live), and
\* every eligible record taken from the stream after a failure gets its
\* attempt started, the failed attempt having freed its slot.
C11_FailureDoesNotStopStream ==
    /\ [](~connCancel)
    /\ \A rec \in DiscRecords :
          (connFailed /\ connpc = "go" /\ connRec = rec)
             ~> (connpc = "range" /\ attemptCnt[rec] >= 1)

\* C11 witness: five attempts ran, the only one that has ended failed, and
\* the sixth record's attempt runs in the slot it freed.
C11_SlotOfFailedAttemptReused ==
    LET Attempts == attemptCnt[[id |-> "p1", addrs |-> 1]] + attemptCnt[[id |-> "p2", addrs |-> 1]]
    IN  /\ connFailed /\ ~connCancel
        /\ Attempts = ConnectLimit + 1 /\ Inflight = ConnectLimit
        /\ connpc = "range"

C13_FailedRoomHasNoLoops ==
    \A r \in RoomIds :
        rstate[r] = "failed" => (subpc[r] \in {"none", "done"} /\ pubpc[r] \in {"none", "done"})

\* C14: a call of Exit on a room that is closed already (storage closed,
\* subscription cancelled, topic closed, context cancelled) changes none of
\* these and releases nothing, and the descriptor of a room's log file is
\* never released twice.
C14_ExitIdempotent ==
    /\ [](\A r \in RoomIds : fdReleases[r] <= 1)
    /\ [][ \A r \in RoomIds :
              (storClosed[r] /\ subCancelled[r] /\ topicClosed[r] /\ ctxDone[r])
                 => /\ storClosed'[r] /\ subCancelled'[r] /\ topicClosed'[r] /\ ctxDone'[r]
                    /\ fdReleases'[r] = fdReleases[r]
         ]_vars

\* C14 witness: a second Exit of a room has closed its storage again after
\* the first Exit had returned.
C14_SecondExitRan ==
    \E g \in CmdIds :
        /\ cmd[g].pc \in {"exitSub", "exitTopic", "exitCancel"}
        /\ exitCalls[ExitTarget(g)] = 2
        /\ ctxDone[ExitTarget(g)] /\ topicClosed[ExitTarget(g)]
        /\ \E h \in CmdIds : cmd[h].pc = "done"

\* C15: a `/room` line with nothing but spaces after the command name is
\* answered with the "missing room name" LogMessage, and no switch is tried:
\* the room stays what it was.
C15_EmptyRoomArgumentIsMissing ==
    LET OnlySpacesFollow ==
            /\ Len(typed) >= Len(RoomCmd)
            /\ SubSeq(typed, 1, Len(RoomCmd)) = RoomCmd
            /\ \A i \in (Len(RoomCmd) + 1)..Len(typed) : typed[i] = " "
    IN  (lBranch # "" /\ OnlySpacesFollow) =>
            (lBranch = "missingRoom" /\ lShown = LogOf("missingRoom"))

\* C17: a submitted line without the sigil becomes one ChatMessage with the
\* line as its text and the local identity and user name as its sender, the
\* message is put on the outbound queue, and the line is shown locally.
C17_MessageQueuedAndEchoed ==
    lBranch = "message" =>
        /\ lOut = [Message |-> typed, SenderID |-> Self, SenderName |-> lUser]
        /\ lShown = [kind |-> "chat", text |-> typed]

C16_SameRoomIsNoOp ==
    [][\A g \in CmdIds :
         (/\ cmd[g].pc = "start" /\ cmd[g].type = "/room"
          /\ cmd[g].arg = RoomName[active]
          /\ cmd'[g] # cmd[g])
         => /\ cmd'[g].pc = "doneSame"
            /\ nRooms' = nRooms /\ rstate' = rstate
            /\ exitCalls' = exitCalls
            /\ active' = active
            /\ subpc'[active] = subpc[active] /\ pubpc'[active] = pubpc[active]
            /\ History'[active] = History[active]
            /\ UserName'[active] = UserName[active]
            /\ RoomName'[active] = RoomName[active]]_vars

C16_SameRoomAfterSwitch ==
    /\ active # 1 /\ RoomName[active] = "other"
    /\ \E g \in CmdIds : cmd[g].pc = "doneSame"

\* C20: the topic a room is joined on is the fixed prefix `room-peerchat-`
\* followed by the room name given to the constructor and nothing else, so
\* two constructions with the same room name, on any nodes, join the same
\* topic.
C20_TopicIsFunctionOfRoomName ==
    /\ \A n \in Nodes :
         joinRoom[n] # NoJoin =>
            /\ Len(joinTopic[n]) = Len(TopicPrefix) + Len(joinRoom[n])
            /\ SubSeq(joinTopic[n], 1, Len(TopicPrefix)) = TopicPrefix
            /\ SubSeq(joinTopic[n], Len(TopicPrefix) + 1, Len(joinTopic[n])) = joinRoom[n]
    /\ \A n, m \in Nodes :
         (joinRoom[n] # NoJoin /\ joinRoom[n] = joinRoom[m]) => joinTopic[n] = joinTopic[m]

C20_TwoNodesSameRoom ==
    /\ joinRoom[Self] = <<"a", "a">> /\ joinRoom[Peer] = <<"a", "a">>
    /\ joinTopic[Self] = joinTopic[Peer]

\* C19: a record that the subscription of a room built by a switch has
\* received from another peer, and that SubLoop is handing over, is
\* eventually received by the event loop.
C19_HandoverRecordDelivered ==
    \A r \in RoomIds :
        (r # 1 /\ rstate[r] = "ok" /\ subpc[r] = "sendIn") ~> (subpc[r] # "sendIn")

\* C21: two LoadMessages calls with no SaveMessage and no Clear between them
\* return the same result, and LoadMessages leaves the log as it is.
C21_ReplayIdempotent ==
    /\ [](lastLoad # NoLoad /\ prevLoad # NoLoad /\ sincePrev.ev = "none"
            => lastLoad = prevLoad)
    /\ [][(\/ lastLoad' # lastLoad \/ prevLoad' # prevLoad
           \/ (sinceLast # NoChange /\ sinceLast' = NoChange))
          => fileLines' = fileLines]_vars

C21_LoadedTwice ==
    /\ prevLoad # NoLoad /\ sincePrev.ev = "none" /\ sinceLast.ev = "none"
    /\ Len(fileLines) = 3 /\ Len(lastLoad.msgs) = 2
    /\ lastLoad = prevLoad

\* C22: LoadMessages returns without an error the records of the lines of
\* the log that unmarshal, in the order of the log, the other lines being
\* skipped; and after SaveMessage of a record it returns what it returned
\* before, followed by that record.
C22_LoadAllValidLines ==
    /\ (lastLoad # NoLoad /\ sinceLast.ev = "none") =>
          LET valid == SelectSeq(fileLines, IsJSON)
          IN  /\ lastLoad.err = "nil"
              /\ lastLoad.msgs = [i \in 1..Len(valid) |-> Unmarshal(valid[i])]
    /\ (lastLoad # NoLoad /\ prevLoad # NoLoad /\ sincePrev.ev = "append") =>
          /\ lastLoad.err = "nil"
          /\ lastLoad.msgs = Append(prevLoad.msgs, Unmarshal(sincePrev.line))

\* C23: when the log was cleared and nothing was saved afterwards, the room
\* built next on that log has an empty history.
C23_ClearThenRestartEmpty ==
    (lastLoad # NoLoad /\ sincePrev.ev = "clear") => lastLoad = [msgs |-> <<>>, err |-> "nil"]

C23_ClearedNonEmptyLog ==
    /\ prevLoad # NoLoad /\ Len(prevLoad.msgs) = 2
    /\ sincePrev.ev = "clear"
    /\ lastLoad = [msgs |-> <<>>, err |-> "nil"]

\* C24: a ChatMessage that went through json.Marshal and json.Unmarshal has
\* the text, the sender id, the sender name and the instant of creation it
\* had before.
C24_RoundTrip ==
    cpc = "unmarshalled" =>
        /\ cBack.Message = cMsg.Message
        /\ cBack.SenderID = cMsg.SenderID
        /\ cBack.SenderName = cMsg.SenderName
        /\ cBack.CreatedAt.sec = cMsg.CreatedAt.sec
        /\ cBack.CreatedAt.nsec = cMsg.CreatedAt.nsec
        /\ cBack.CreatedAt.off = cMsg.CreatedAt.off

\* C24, for the messages whose strings are valid UTF-8
C24_RoundTripValidUTF8 ==
    LET Valid(text) == \A i \in 1..Len(text) : text[i] # InvalidByte
    IN  (/\ cpc = "unmarshalled"
         /\ Valid(cMsg.Message) /\ Valid(cMsg.SenderID) /\ Valid(cMsg.SenderName))
        => /\ cBack.Message = cMsg.Message
           /\ cBack.SenderID = cMsg.SenderID
           /\ cBack.SenderName = cMsg.SenderName
           /\ cBack.CreatedAt.sec = cMsg.CreatedAt.sec
           /\ cBack.CreatedAt.nsec = cMsg.CreatedAt.nsec
           /\ cBack.CreatedAt.off = cMsg.CreatedAt.off

C24_EscapedTextCameBack ==
    /\ cpc = "unmarshalled"
    /\ cMsg.Message = <<Quote, Backslash>> /\ cBack.Message = <<Quote, Backslash>>
    /\ cMsg.SenderName = <<"<">> /\ cBack.SenderName = <<"<">>
    /\ cMsg.CreatedAt.nsec = 120000000 /\ cBack.CreatedAt.nsec = 120000000
    /\ cMsg.CreatedAt.off = 2

\* C25: when sub.Next fails in a room on which Exit was not called, SubLoop
\* closes Inbound, sends its one LogMessage and returns, and the event loop
\* hands no ChatMessage of that room to displayMessage afterwards.
C25_ClosedInboundShowsNothing ==
    \A r \in RoomIds :
        exitCalls[r] = 0 =>
            /\ inClosed[r] => subpc[r] \in {"logClosed", "done"}
            /\ r \notin zeroShown

\* C26: ui.ChatRoom is written by the goroutine of UI.start only: no step
\* of a handleCommand goroutine changes it.
C26_OnlyEventLoopWritesActive ==
    [][active' # active => \A g \in CmdIds : cmd'[g] = cmd[g]]_vars

C28_SendLoopContinues ==
    \A r \in RoomIds :
        []((running /\ pubpc[r] = "logPublish" /\ ~ctxDone[r])
              => <>(~running \/ ctxDone[r] \/ pubpc[r] = "recv"))

\* C29: a record that fails to deserialize does not stop the receive loop:
\* once SubLoop has gone to emit the LogMessage of a bad record it is back at
\* sub.Next eventually, so that the later valid records are still pushed to
\* Inbound, unless the context of the room is cancelled or the process ends
\* first.
C29_ReceiveLoopContinues ==
    \A r \in RoomIds :
        []((running /\ subpc[r] = "logBad" /\ ~ctxDone[r])
              => <>(~running \/ ctxDone[r] \/ subpc[r] = "next"))

\* C30: Exit cancels the context first: whenever the store, the subscription
\* or the topic of a room has been released, the context of that room is
\* already cancelled.
C30_CancelBeforeRelease ==
    \A r \in RoomIds :
        (storClosed[r] \/ subCancelled[r] \/ topicClosed[r]) => ctxDone[r]

\* C31: commands take effect in the order the user submitted them: when
\* every command submitted was a `/user` command and all of them have
\* returned, the display name is the one given by the last of them that
\* names a user.
C31_LastUserCommandWins ==
    LET named == {g \in 1..nCmds : cmd[g].arg # ""}
        last == CHOOSE g \in named : \A h \in named : h <= g
    IN  (/\ nCmds >= 2 /\ pending.kind = "none" /\ named # {}
         /\ \A g \in 1..nCmds : cmd[g].type = "/user" /\ cmd[g].pc = "done")
            => UserName[active] = UpdateUserName(cmd[last].arg)

\* C32: SubLoop pushes each accepted ChatMessage to Inbound with every field
\* as the payload of its record has it: when SubLoop gets to cr.Inbound <- *cm
\* the message is the unmarshalled payload of a record from another peer,
\* whatever peer forwarded it, and it stays so until the event loop has
\* received it.
C32_InboundIsPayload ==
    [][\A r \in RoomIds :
          /\ (subpc[r] # "sendIn" /\ subpc'[r] = "sendIn")
                => \E rec \in Records(r) :
                      /\ ~IsOwn(rec) /\ IsJSON(rec.data)
                      /\ Marshal(subMsg'[r]) = rec.data
          /\ (subpc[r] = "sendIn" /\ subpc'[r] = "sendIn") => subMsg'[r] = subMsg[r]]_vars

\* C32 witness: a record forwarded by a peer whose payload names the local
\* identity as its sender is at cr.Inbound <- *cm with that senderId.
C32_ForwardedSenderKept ==
    \E r \in RoomIds :
        /\ subpc[r] = "sendIn" /\ subMsg[r] = EchoMsg
        /\ published[r] = <<>>

C34_TickOnlyReads ==
    [][nTicks' # nTicks =>
          /\ peerBox' = active
          /\ UNCHANGED <<active, roomFields, exitVars, subVars, pubVars, logFile,
                         cmdVars, procVars, uipc, outRoom, outMsg>>]_vars

\* C34 witness: a tick handled between the rebinding of a room switch and the
\* Exit of the old room has printed the peers of the new room.
C34_TickDuringSwitch ==
    \E g \in CmdIds :
        /\ cmd[g].pc = "exitStore" /\ active = cmd[g].new
        /\ peerBox = active /\ nTicks = 2 /\ sel = active

\* C35: once every `/room` command has returned, exactly one ChatRoom that
\* NewChatRoom returned has not been exited, the active one, and Exit has
\* been called exactly once on every other.
C35_OneRoomLeftAfterSwitches ==
    (/\ running /\ pending.kind = "none" /\ nCmds >= 2
     /\ \A g \in 1..nCmds : cmd[g].pc \in {"done", "doneSame"})
        => \A r \in 1..nRooms :
              rstate[r] = "ok" => exitCalls[r] = (IF r = active THEN 0 ELSE 1)

\* C36: a `/user <name>` command and a `/room <other>` command in any
\* interleaving: once both have returned and the room has been switched, the
\* user name of the active room is the sanitized <name>.
C36_NameSurvivesSwitch ==
    \A g, h \in 1..nCmds :
        (/\ nCmds = 2 /\ pending.kind = "none" /\ g # h
         /\ cmd[g].type = "/user" /\ cmd[g].arg # "" /\ cmd[g].pc = "done"
         /\ cmd[h] = DoneCmd /\ active # 1 /\ rstate[active] = "ok")
            => UserName[active] = UpdateUserName(cmd[g].arg)

\* C37: every chat line the event loop has accepted is eventually published
\* on the topic of a room or reported by the LogMessage of its failed
\* publish, unless the process ends first: it does not stay for ever in the
\* send on Outbound or in a PubLoop that holds it.
C37_AcceptedLineSettled ==
    \A m \in 1..MaxInputs :
        LET In(seq) == \E i \in 1..Len(seq) : seq[i] = m
            Published == \E r \in RoomIds : In(published[r])
            Reported == \E r \in RoomIds :
                           /\ In(enqueued[r]) /\ ~In(published[r])
                           /\ pubpc[r] \in {"recv", "done"}
        IN  (running /\ uipc = "sendOut" /\ outMsg.id = m)
                ~> (~running \/ Published \/ Reported)

\* C38: the topic a ChatRoom is joined on is `room-peerchat-` followed by its
\* RoomName field, also when the room argument was empty and the name was
\* defaulted, so two ChatRooms with the same RoomName are on the same topic.
C38_TopicMatchesRoomName ==
    /\ \A n \in Nodes :
         joinRoom[n] # NoJoin => joinTopic[n] = TopicPrefix \o RoomNameOf(joinRoom[n])
    /\ \A n, m \in Nodes :
         (/\ joinRoom[n] # NoJoin /\ joinRoom[m] # NoJoin
          /\ RoomNameOf(joinRoom[n]) = RoomNameOf(joinRoom[m]))
            => joinTopic[n] = joinTopic[m]

\* C39: a ChatRoom whose construction failed holds nothing once NewChatRoom
\* has returned the error: its topic handle is closed, its subscription
\* cancelled, its store file closed and its context cancelled.
C39_FailedRoomHoldsNothing ==
    \A r \in RoomIds :
        rstate[r] = "failed"
            => topicClosed[r] /\ subCancelled[r] /\ storClosed[r] /\ ctxDone[r]

\* C40: only locally sent messages are persisted: every line this process
\* has appended to the log of a room carries the local peer as senderId and
\* is a message taken from the Outbound of a ChatRoom of that name; no
\* message received from the topic is appended.
C40_OnlyOwnMessagesSaved ==
    \A n \in RoomNames :
        \A k \in (Len(InitLog[n]) + 1)..Len(logFile[n]) :
            /\ Unmarshal(logFile[n][k]).senderId = Self
            /\ \E r \in RoomIds :
                  /\ RoomName[r] = n
                  /\ \E i \in 1..Len(enqueued[r]) :
                        enqueued[r][i] = Unmarshal(logFile[n][k]).id

\* C40 witness: a room has appended a line of its own to its log and has
\* received a message of another peer, which is not in the log.
C40_SavedBesideInbound ==
    \E r \in RoomIds :
        /\ rstate[r] = "ok"
        /\ Len(logFile[RoomName[r]]) = Len(InitLog[RoomName[r]]) + 1
        /\ subpc[r] = "sendIn" /\ subMsg[r].senderId = Peer

====
